---- MODULE Spec2Model ----
(***************************************************************************)
(* Undercurrents: rings of particles spawned on a timer, recycled through  *)
(* a free list of particle nodes.  The model follows the current main      *)
(* program (src/unnamed/part_001) and the particle module                  *)
(* (src/src/particle.c, src/src/particle.h).                               *)
(*                                                                         *)
(* Representation.  A linked list is a sequence, head first.  A RingNode   *)
(* is a record: `id' numbers the RingNode allocations in the order addRing *)
(* made them, `particleNode' is the ring's list of ParticleNodes.  A       *)
(* ParticleNode and the Particle it carries are allocated together and     *)
(* never separated, so one number names both: node k is the k-th particle  *)
(* that createParticle allocated.  Floats are fixed-point integers in      *)
(* thousandths (height in 1/1000 pixel, position in 2^-17 degree,         *)
(* rainbowIdx in 1/1000 colour step), tagged with a class so that NaN and  *)
(* the infinities of IEEE arithmetic are values of their own.              *)
(***************************************************************************)
EXTENDS Integers, Sequences, FiniteSets, TLC

(***************************************************************************)
(* Program constants (the #define defaults of part_001).                   *)
(***************************************************************************)
PARTICLE_SPEED_MAXIMUM == 30
PARTICLE_SPEED_FACTOR == 100
PARTICLE_RADIUS_MINIMUM == 1
PARTICLE_RADIUS_MAXIMUM == 5
PARTICLE_HEIGHT_MINIMUM == 0
PARTICLE_HEIGHT_MAXIMUM == 5
PARTICLE_LINE_DISTANCE_MINIMUM == 0
PARTICLE_LINE_DISTANCE_MAXIMUM == 200
PARTICLE_LINE_DISTANCE_FACTOR == 100
PARTICLE_LINE_RING_DISABLE == -1
PARTICLE_EXPAND_RATE == 20
PARTICLE_BORN_TIMER_MAXIMUM == 1000
PARTICLE_COLOR_SPEED == 50
ALPHA_BACKGROUND == 7
ALPHA_ELEMENTS == 25
TIMER_PRINT_STATUS_LINE == 2000
TIMER_ADD_NEW_RING == 1000
MAX_COLORS == 1536
FULL_CIRCLE == 360

\* The configuration globals that keep their defaults in every run.  The
\* ones a command-line option sets in some run are variables: ringsMaximum,
\* timerPrintStatusLine, particleColorSpeed, particleLineRingDisable,
\* particleHeightMinimum, particleHeightMaximum, particleExpandRate,
\* timerAddNewRing.
particleSpeedMaximum == PARTICLE_SPEED_MAXIMUM
particleRadiusMinimum == PARTICLE_RADIUS_MINIMUM
particleRadiusMaximum == PARTICLE_RADIUS_MAXIMUM
particleLineDistanceMinimum == PARTICLE_LINE_DISTANCE_MINIMUM
particleLineDistanceMaximum == PARTICLE_LINE_DISTANCE_MAXIMUM
particleBornTimerMaximum == PARTICLE_BORN_TIMER_MAXIMUM
alphaBackground == ALPHA_BACKGROUND
alphaElements == ALPHA_ELEMENTS

(***************************************************************************)
(* Bounds of the model.                                                    *)
(***************************************************************************)
\* ringsMaximum is drawn from 0..MaxRingsMaximum
MaxRingsMaximum == 3
\* iterations of the main loop in one run
MaxFrames == 5
\* key and window events in one run
MaxEvents == 2
\* the arrow keys stop raising a factor this far above its default
MaxFactorSteps == 1
\* ringsMaximum in the runs that let the rings grow old, and the iterations
\* of the main loop in such a run
ManyRings == 5
ManyFrames == 6

\* Elapsed milliseconds between two iterations of the main loop.
Deltas == {400, 1000}
\* The same when the loop is held up for several spawn intervals.
LongDeltas == {400, 2400, 3000}
\* --timerPrintStatusLine, --particleColorSpeed, --particleLineRingDisable
StatusLineTimers == {0, TIMER_PRINT_STATUS_LINE}
ColorSpeeds == {0, PARTICLE_COLOR_SPEED, MAX_COLORS \div 2}
LineRingDisables == {PARTICLE_LINE_RING_DISABLE, 0, 1}
\* --particleHeightMinimum and --particleHeightMaximum, --particleExpandRate
HeightRanges == {<<PARTICLE_HEIGHT_MINIMUM, PARTICLE_HEIGHT_MAXIMUM>>,
                 <<0, 1>>, <<3, 3>>}
ExpandRates == {0, PARTICLE_EXPAND_RATE}
\* --timerAddNewRing
AddRingTimers == {0, TIMER_ADD_NEW_RING}
SpeedFactors == {1, PARTICLE_SPEED_FACTOR}
\* Elapsed milliseconds when the loop runs unhindered.
ShortDeltas == {1, 400}

\* What rand() returns.  The stream is fixed by the seed; here it repeats
\* after four calls of randomizeParticle, whose eight rand() results are
\* listed in the order of the calls: speed, radius, height, lineDistance,
\* color, bornTimer, position, and the coin for the direction.
RandSequence ==
    << <<0, 0, 0, 0, 0, 0, 0, 0>>,
       <<37, 5, 8, 350, 1636, 1700, 450, 1>>,
       <<12, 2, 1, 180, 900, 300, 200, 0>>,
       <<61, 7, 14, 399, 3071, 2999, 719, 3>> >>
\* srand(time(NULL)): where in the stream the run starts
Seeds == {0, 1}

VARIABLES
    rings,                  \* gState.rings
    ringCount,              \* gState.ringCount
    particleCount,          \* gState.particleCount
    recycledParticles,      \* gState.recycledParticles
    freeParticleNodes,      \* gState.freeParticleNodes
    particle,               \* node -> the Particle the node carries
    assigned,               \* node -> the fields written since the node was
                            \*   last allocated or taken from the free list
    fadingMode, blankMode, linesEnabled, running, paused, colorMode,
    particleSpeedFactor, particleLineDistanceFactor,
    ringsMaximum, timerPrintStatusLine, particleColorSpeed,
    particleLineRingDisable,
    particleHeightMinimum, particleHeightMaximum, particleExpandRate,
    timerAddNewRing,
    randState,              \* calls of randomizeParticle's worth of rand()
                            \*   results consumed, modulo the period
    randomMagic,            \* gState.randomMagic: where in the stream its
                            \*   24 values were drawn
    statusLines,            \* status lines printed so far
    cleared,                \* clearScreen() was called in this iteration
    circles,                \* nodes DrawParticle drew in this iteration
    lines,                  \* pairs DrawLinesConnectingParticles joined
    drawColor,              \* the renderer's draw colour
    rainbowIdx, addNewRingCounter, printStatusLineCounter, delta,
    pc,                     \* position in main's loop
    popI, popJ,             \* the loop indices i and j of the population loops
    ringsAdded,             \* RingNodes allocated so far
    frames, events,         \* loop iterations begun, events processed
    missedAddRing           \* the last "[warn] missed %d add ring calls"

vars == <<rings, ringCount, particleCount, recycledParticles,
          freeParticleNodes, particle, assigned, fadingMode, blankMode,
          linesEnabled, running, paused, colorMode, particleSpeedFactor,
          particleLineDistanceFactor, ringsMaximum, rainbowIdx,
          addNewRingCounter, printStatusLineCounter, delta, pc, popI, popJ,
          ringsAdded, frames, events, missedAddRing,
          timerPrintStatusLine, particleColorSpeed, particleLineRingDisable,
          particleHeightMinimum, particleHeightMaximum, particleExpandRate,
          timerAddNewRing, randState, randomMagic, statusLines, cleared, circles, lines,
          drawColor>>

gameVars == <<rings, ringCount, particleCount, recycledParticles,
              freeParticleNodes, particle, assigned>>
modeVars == <<fadingMode, blankMode, linesEnabled, running, paused,
              colorMode, particleSpeedFactor, particleLineDistanceFactor>>
loopVars == <<popI, popJ, missedAddRing>>
confVars == <<timerPrintStatusLine, particleColorSpeed,
              particleLineRingDisable, particleHeightMinimum,
              particleHeightMaximum, particleExpandRate, timerAddNewRing>>
renderVars == <<cleared, circles, lines, drawColor>>
outputVars == <<statusLines, renderVars>>
randVars == <<randState, randomMagic>>

(***************************************************************************)
(* Floats.                                                                 *)
(***************************************************************************)
Num(v) == [cls |-> "num", v |-> v]
NaN == [cls |-> "nan", v |-> 0]
PosInf == [cls |-> "inf", v |-> 1]
NegInf == [cls |-> "inf", v |-> -1]

Sign(n) == IF n > 0 THEN 1 ELSE IF n < 0 THEN -1 ELSE 0
Abs(n) == IF n < 0 THEN -n ELSE n
\* C's conversion of a quotient to int: toward zero
TruncDiv(a, b) == Sign(a) * Sign(b) * (Abs(a) \div Abs(b))

\* sin of d whole degrees, in thousandths (Bhaskara's rational
\* approximation; exact at the multiples of 90)
SinMilli(d) ==
    LET e == d % FULL_CIRCLE
        h(t) == (4000 * t * (180 - t)) \div (40500 - t * (180 - t))
    IN  IF e <= 180 THEN h(e) ELSE -h(e - 180)
CosMilli(d) == SinMilli(d + 90)

\* A float position is kept in units of 2^-17 degree.
PositionUnit == 131072
\* A float has a mantissa of 24 bits (FLT_MANT_DIG): 2^24.
FloatMantissa == 16777216

\* The spacing of the floats around a magnitude of a units: one unit while
\* the mantissa holds a, doubling with every power of two from there.
RECURSIVE Grain(_)
Grain(a) == IF a < FloatMantissa THEN 1 ELSE 2 * Grain(a \div 2)

\* The store of a double into a float: to the nearest float, a tie going
\* to the one with the even mantissa.
RoundFloat(v) ==
    LET a == Abs(v)
        g == Grain(a)
        q == a \div g
        r == a % g
        n == IF 2 * r > g \/ (2 * r = g /\ q % 2 = 1) THEN q + 1 ELSE q
    IN  Sign(v) * n * g

(***************************************************************************)
(* Particles (particle.h, particle.c).  A particle is handled together     *)
(* with the set of its fields that have been written: tp.val is the struct,*)
(* tp.set the names of the fields stored into.                             *)
(***************************************************************************)
ParticleFields == {"position", "height", "radius", "lineDistance", "color",
                   "speed", "bornTimer", "x", "y"}
NodeFields == ParticleFields \cup {"next"}

\* malloc'ed memory nobody has written yet
UnsetParticle ==
    [position |-> Num(0), height |-> 0, radius |-> 0, lineDistance |-> 0,
     color |-> 0, speed |-> 0, bornTimer |-> 0, x |-> 0, y |-> 0]

\* p->f = rec.f for every field f of rec
Store(tp, rec) ==
    [val |-> [f \in ParticleFields |->
                 IF f \in DOMAIN rec THEN rec[f] ELSE tp.val[f]],
     set |-> tp.set \cup DOMAIN rec]

\* What a conversion of NaN to int may yield (undefined in C).
NaNToInt == {0, -2147483647 - 1}

\* The wrap loops return only for a position that is not infinite.
CoordinatesReturn(p) == p.position.cls # "inf"

\* while (p->position >= 360.0) { p->position -= 360.0; }
RECURSIVE WrapDown(_)
WrapDown(v) ==
    IF v >= FULL_CIRCLE * PositionUnit
    THEN WrapDown(RoundFloat(v - FULL_CIRCLE * PositionUnit))
    ELSE v

\* while (p->position < 0) { p->position += 360.0; }
RECURSIVE WrapUp(_)
WrapUp(v) ==
    IF v < 0
    THEN WrapUp(RoundFloat(v + FULL_CIRCLE * PositionUnit))
    ELSE v

particleCalculateCoordinates(tp, ub) ==
    LET p == tp.val
        wrapped == IF p.position.cls = "num"
                   THEN Num(WrapUp(WrapDown(p.position.v)))
                   ELSE p.position
        degrees == (wrapped.v \div PositionUnit) + 270
    IN  IF wrapped.cls = "num"
        THEN Store(tp, [position |-> wrapped,
                        x |-> TruncDiv(p.height * CosMilli(degrees), 1000000),
                        y |-> TruncDiv(p.height * SinMilli(degrees), 1000000)])
        ELSE Store(tp, [x |-> ub, y |-> ub])

\* the older particleInit (part_000), which has no colour to set
particleInit_NoColor(tp, bornTimer, radius, height, speed, lineDistance, position, color) ==
    particleCalculateCoordinates(
        Store(tp, [bornTimer |-> bornTimer, height |-> height * 1000,
                   radius |-> radius, speed |-> speed,
                   lineDistance |-> lineDistance,
                   position |-> Num(position * PositionUnit)]), 0)

particleInit(tp, bornTimer, radius, height, speed, lineDistance, position, color) ==
    particleCalculateCoordinates(
        Store(tp, [bornTimer |-> bornTimer, height |-> height * 1000,
                   radius |-> radius, speed |-> speed,
                   lineDistance |-> lineDistance,
                   position |-> Num(position * PositionUnit), color |-> color]), 0)

\* The eight rand() calls of one randomizeParticle, at position s of the
\* stream, and the position after them.
Draws(s) ==
    LET r == RandSequence[s + 1]
    IN  [speed |-> r[1], radius |-> r[2], height |-> r[3],
         lineDistance |-> r[4], color |-> r[5], bornTimer |-> r[6],
         position |-> r[7], flip |-> r[8]]
RandAfter(s, calls) == (s + calls) % Len(RandSequence)

\* One of the divisors of randomizeParticle is zero.
RandomizeDivides ==
    \/ particleSpeedMaximum = 0
    \/ particleRadiusMaximum = particleRadiusMinimum
    \/ particleHeightMaximum = particleHeightMinimum
    \/ particleLineDistanceMaximum = particleLineDistanceMinimum
    \/ particleBornTimerMaximum = 0

\* a % b; where the division by zero does not trap it yields the quotient
\* 0, and so the remainder a
Rem(a, b) == IF b = 0 THEN a ELSE a % b

randomizeParticle(tp, d) ==
    LET speed == Rem(d.speed, particleSpeedMaximum)
        radius == particleRadiusMinimum +
            Rem(d.radius, particleRadiusMaximum - particleRadiusMinimum)
        height == particleHeightMinimum +
            Rem(d.height, particleHeightMaximum - particleHeightMinimum)
        lineDistance == particleLineDistanceMinimum +
            Rem(d.lineDistance,
                particleLineDistanceMaximum - particleLineDistanceMinimum)
        color == d.color % MAX_COLORS
        bornTimer == Rem(d.bornTimer, particleBornTimerMaximum)
        position == d.position % FULL_CIRCLE
    IN  particleInit(tp, bornTimer, radius, height,
                     IF d.flip % 2 # 0 THEN -speed ELSE speed,
                     lineDistance, position, color)

(***************************************************************************)
(* The ring list and the free list (part_001).                             *)
(***************************************************************************)
Reverse(q) == [k \in 1..Len(q) |-> q[Len(q) + 1 - k]]

\* The part of gState the list operations work on.
Game == [rings |-> rings, ringCount |-> ringCount,
         freeParticleNodes |-> freeParticleNodes,
         recycledParticles |-> recycledParticles]

\* addRing linking the new RingNode behind the last one
addRing_AtTail(g, id) ==
    [g EXCEPT !.rings = g.rings \o <<[id |-> id, particleNode |-> <<>>]>>,
              !.ringCount = g.ringCount + 1]

\* addRing: a new RingNode with no particles becomes the head.
addRing(g, id) ==
    [g EXCEPT !.rings = <<[id |-> id, particleNode |-> <<>>]>> \o g.rings,
              !.ringCount = g.ringCount + 1]

\* recycleLastRing taking the ring at the head, the newest, instead
recycleLastRing_Head(g) ==
    IF Len(g.rings) <= 1 THEN g
    ELSE [g EXCEPT
            !.rings = Tail(g.rings),
            !.freeParticleNodes =
                Reverse(Head(g.rings).particleNode) \o g.freeParticleNodes,
            !.recycledParticles =
                g.recycledParticles + Len(Head(g.rings).particleNode)]

\* recycleLastRing without "ringPtr->next = NULL": the ring stays linked
recycleLastRing_NoTruncate(g) ==
    IF Len(g.rings) <= 1 THEN g
    ELSE LET last == g.rings[Len(g.rings)]
         IN  [g EXCEPT
                !.freeParticleNodes =
                    Reverse(last.particleNode) \o g.freeParticleNodes,
                !.recycledParticles =
                    g.recycledParticles + Len(last.particleNode)]

\* recycleLastRing.  ringPtr stops at the second last RingNode; in a list
\* of one it stops at the head, whose next is NULL, and the function returns.
recycleLastRing(g) ==
    IF Len(g.rings) = 0 THEN g                    \* "nothing to recycle"
    ELSE IF Len(g.rings) = 1 THEN g               \* last == NULL
    ELSE LET last == g.rings[Len(g.rings)]
         IN  [g EXCEPT
                !.rings = SubSeq(g.rings, 1, Len(g.rings) - 1),
                \* each node in turn becomes the head of the free list
                !.freeParticleNodes =
                    Reverse(last.particleNode) \o g.freeParticleNodes,
                !.recycledParticles =
                    g.recycledParticles + Len(last.particleNode)]

\* One turn of "recycleLastRing(); gState.ringCount--;".
PruneOnce(g) ==
    [recycleLastRing(g) EXCEPT !.ringCount = g.ringCount - 1]

\* while (gState.ringCount > limit) { recycleLastRing(); gState.ringCount--; }
RECURSIVE PruneWhileAbove(_, _)
PruneWhileAbove(g, limit) ==
    IF g.ringCount > limit THEN PruneWhileAbove(PruneOnce(g), limit) ELSE g

SetGame(g) ==
    /\ rings' = g.rings
    /\ ringCount' = g.ringCount
    /\ freeParticleNodes' = g.freeParticleNodes
    /\ recycledParticles' = g.recycledParticles

\* The part of gState makeOrReclaimRandomizedParticleNode works on.
Pool == [freeParticleNodes |-> freeParticleNodes,
         recycledParticles |-> recycledParticles,
         particleCount |-> particleCount,
         particle |-> particle, assigned |-> assigned]

\* assert(gState.recycledParticles == 0) on the allocating branch
AssertionFails(m) ==
    m.freeParticleNodes = <<>> /\ m.recycledParticles # 0

\* makeOrReclaimRandomizedParticleNode without "recycledParticles--"
makeOrReclaimRandomizedParticleNode_NoDecrement(m, d) ==
    LET fresh == m.freeParticleNodes = <<>>
        node == IF fresh THEN m.particleCount + 1
                         ELSE Head(m.freeParticleNodes)
        held == IF fresh THEN UnsetParticle ELSE m.particle[node]
        tp == randomizeParticle([val |-> held, set |-> {"next"}], d)
    IN  [node |-> node,
         freeParticleNodes |->
            IF fresh THEN m.freeParticleNodes ELSE Tail(m.freeParticleNodes),
         recycledParticles |-> m.recycledParticles,
         particleCount |->
            IF fresh THEN m.particleCount + 1 ELSE m.particleCount,
         particle |-> IF fresh THEN Append(m.particle, tp.val)
                               ELSE [m.particle EXCEPT ![node] = tp.val],
         assigned |-> IF fresh THEN Append(m.assigned, tp.set)
                               ELSE [m.assigned EXCEPT ![node] = tp.set]]

\* makeOrReclaimRandomizedParticleNode that never looks at the free list
makeOrReclaimRandomizedParticleNode_AlwaysAllocates(m, d) ==
    LET tp == randomizeParticle([val |-> UnsetParticle, set |-> {"next"}], d)
    IN  [node |-> m.particleCount + 1,
         freeParticleNodes |-> m.freeParticleNodes,
         recycledParticles |-> m.recycledParticles,
         particleCount |-> m.particleCount + 1,
         particle |-> Append(m.particle, tp.val),
         assigned |-> Append(m.assigned, tp.set)]

\* makeOrReclaimRandomizedParticleNode: the node handed out and the state
\* it leaves.  createParticle is the particleCount + 1 of the first branch.
makeOrReclaimRandomizedParticleNode(m, d) ==
    LET fresh == m.freeParticleNodes = <<>>
        node == IF fresh THEN m.particleCount + 1
                         ELSE Head(m.freeParticleNodes)
        held == IF fresh THEN UnsetParticle ELSE m.particle[node]
        \* particleNode->next = NULL, then randomizeParticle(p)
        tp == randomizeParticle([val |-> held, set |-> {"next"}], d)
    IN  [node |-> node,
         freeParticleNodes |->
            IF fresh THEN m.freeParticleNodes ELSE Tail(m.freeParticleNodes),
         recycledParticles |->
            IF fresh THEN m.recycledParticles ELSE m.recycledParticles - 1,
         particleCount |->
            IF fresh THEN m.particleCount + 1 ELSE m.particleCount,
         particle |-> IF fresh THEN Append(m.particle, tp.val)
                               ELSE [m.particle EXCEPT ![node] = tp.val],
         assigned |-> IF fresh THEN Append(m.assigned, tp.set)
                               ELSE [m.assigned EXCEPT ![node] = tp.set]]

\* the population of the older main (undercurrents.c): (i / 4) + 2
PopulationOf_Older(i) == (i \div 4) + 2

\* int num = (i / 4) + 4;
PopulationOf(i) == (i \div 4) + 4

(***************************************************************************)
(* The timers and the colour index of main.                                *)
(***************************************************************************)
\* while (counter <= 0) { i++; counter += interval; }  -- returns only when
\* the counter is positive already or the interval is
CatchUpReturns(counter, interval) == counter > 0 \/ interval > 0

\* the catch-up loop without its "i++"
RECURSIVE CatchUp_NoCount(_, _, _)
CatchUp_NoCount(counter, interval, i) ==
    IF counter <= 0 THEN CatchUp_NoCount(counter + interval, interval, i)
    ELSE [counter |-> counter, missed |-> i]

\* the catch-up as an if: one more interval and no loop
CatchUp_Once(counter, interval, i) ==
    IF counter <= 0 THEN [counter |-> counter + interval, missed |-> i + 1]
    ELSE [counter |-> counter, missed |-> i]

RECURSIVE CatchUp(_, _, _)
CatchUp(counter, interval, i) ==
    IF counter <= 0 THEN CatchUp(counter + interval, interval, i + 1)
    ELSE [counter |-> counter, missed |-> i]

\* the colour index left as the addition made it
WrapRainbow_NoWrap(r) == r

RECURSIVE WrapRainbow(_)
WrapRainbow(r) ==
    IF r > MAX_COLORS * 1000 THEN WrapRainbow(r - MAX_COLORS * 1000)
    ELSE IF r <= 0 THEN WrapRainbow(r + MAX_COLORS * 1000)
    ELSE r

(***************************************************************************)
(* The per-frame update of one particle (main, "calculate new particle     *)
(* locations").                                                            *)
(***************************************************************************)
\* q / h in units of 2^-17 (2^17 = 512 * 256), q >= 0, h > 0, without
\* leaving 32 bits
UnitQuotient(q, h) ==
    LET r1 == q % h
        r2 == (r1 * 512) % h
    IN  (q \div h) * PositionUnit + ((r1 * 512) \div h) * 256
            + (r2 * 256) \div h

\* (float)delta * ((float)p->speed / p->height / 5.0 * speedRate), in
\* units of 2^-17 degree, for the height the particle has now
PositionStep(speed, height, dl, factor) ==
    IF height # 0
    THEN Num(Sign(speed) *
             UnitQuotient(2 * dl * Abs(speed) * factor, height))
    ELSE IF speed = 0 \/ factor = 0 \/ dl = 0 THEN NaN
    ELSE IF speed > 0 THEN PosInf ELSE NegInf

FloatAdd(a, b) ==
    IF a.cls = "nan" \/ b.cls = "nan" THEN NaN
    ELSE IF a.cls = "inf" /\ b.cls = "inf"
         THEN (IF a.v = b.v THEN a ELSE NaN)
    ELSE IF a.cls = "inf" THEN a
    ELSE IF b.cls = "inf" THEN b
    ELSE Num(RoundFloat(a.v + b.v))

\* the update with a growth that depends on the particle: its radius times
\* the expand rate
Moved_ByRadius(p, dl, factor) ==
    LET h == p.height + dl * particleExpandRate * p.radius
    IN  [p EXCEPT !.height = h,
                  !.position = FloatAdd(p.position,
                                   PositionStep(p.speed, h, dl, factor))]

\* height and position after the two += of the update
Moved(p, dl, factor) ==
    LET h == p.height + dl * particleExpandRate
    IN  [p EXCEPT !.height = h,
                  !.position = FloatAdd(p.position,
                                   PositionStep(p.speed, h, dl, factor))]

\* the countdown without "if (p->bornTimer < 0) p->bornTimer = 0"
BornTimerAfter_NoClamp(bornTimer, dl) ==
    IF bornTimer # 0 THEN bornTimer - dl ELSE bornTimer

\* if (p->bornTimer != 0) { p->bornTimer -= delta; clamp at 0 }
BornTimerAfter(bornTimer, dl) ==
    IF bornTimer # 0
    THEN (IF bornTimer - dl < 0 THEN 0 ELSE bornTimer - dl)
    ELSE bornTimer

\* the update without the call of particleCalculateCoordinates
AdvanceParticle_NoCoordinates(p, dl, factor, ub) ==
    [Moved(p, dl, factor) EXCEPT !.bornTimer = BornTimerAfter(p.bornTimer, dl)]

AdvanceParticle(p, dl, factor, ub) ==
    LET q == particleCalculateCoordinates(
                 [val |-> Moved(p, dl, factor), set |-> {}], ub).val
    IN  [q EXCEPT !.bornTimer = BornTimerAfter(p.bornTimer, dl)]

\* the nodes linked into some ring
RingNodes == UNION {{rings[r].particleNode[k] :
                        k \in 1..Len(rings[r].particleNode)} :
                    r \in 1..Len(rings)}

(***************************************************************************)
(* The program.  InitConfigured is the state in which main enters its loop  *)
(* after parseArguments has set the configuration; Init is that state when *)
(* only --ringsMaximum was given.                                          *)
(***************************************************************************)
\* SDL_SetRenderDrawColor(renderer, 0, 0, 0, a)
Black(a) == [kind |-> "black", idx |-> 0, a |-> a]

\* everything of main's state but the particles and ringsMaximum
Configured ==
    /\ rings = <<>>
    /\ ringCount = 0
    /\ recycledParticles = 0
    /\ freeParticleNodes = <<>>
    /\ fadingMode = TRUE
    /\ blankMode = FALSE
    /\ linesEnabled = TRUE
    /\ running = TRUE
    /\ paused \in BOOLEAN                     \* --paused
    /\ colorMode = 0
    /\ particleSpeedFactor \in SpeedFactors    \* --particleSpeedFactor
    /\ particleLineDistanceFactor = PARTICLE_LINE_DISTANCE_FACTOR
    /\ rainbowIdx = 0
    /\ addNewRingCounter = 0
    /\ printStatusLineCounter = 0
    /\ delta = 0
    /\ popI = 0
    /\ popJ = 0
    /\ ringsAdded = 0
    /\ frames = 0
    /\ events = 0
    /\ missedAddRing = 0
    /\ timerPrintStatusLine \in StatusLineTimers
    /\ particleColorSpeed \in ColorSpeeds
    /\ particleLineRingDisable \in LineRingDisables
    /\ \E hr \in HeightRanges :
          particleHeightMinimum = hr[1] /\ particleHeightMaximum = hr[2]
    /\ particleExpandRate \in ExpandRates
    /\ timerAddNewRing \in AddRingTimers
    \* srand(), then randomizeMagic draws 24 values: three calls' worth
    /\ randomMagic \in Seeds
    /\ randState = RandAfter(randomMagic, 3)
    /\ statusLines = 0
    /\ cleared = FALSE
    /\ circles = {}
    /\ lines = {}
    /\ drawColor = Black(255)

\* main enters its loop
Started ==
    /\ Configured
    /\ pc = "loop"
    /\ particleCount = 0
    /\ particle = <<>>
    /\ assigned = <<>>

\* main started without --paused and without --timerAddNewRing
DefaultStart ==
    /\ paused = FALSE
    /\ timerAddNewRing = TIMER_ADD_NEW_RING

InitConfigured ==
    /\ Started
    /\ DefaultStart
    /\ ringsMaximum \in 0..MaxRingsMaximum    \* --ringsMaximum

\* the particles' heights and speed as they are without an option
DefaultParticles ==
    /\ particleSpeedFactor = PARTICLE_SPEED_FACTOR
    /\ particleHeightMinimum = PARTICLE_HEIGHT_MINIMUM
    /\ particleHeightMaximum = PARTICLE_HEIGHT_MAXIMUM
    /\ particleExpandRate = PARTICLE_EXPAND_RATE

Init ==
    /\ InitConfigured
    /\ timerPrintStatusLine = TIMER_PRINT_STATUS_LINE
    /\ particleColorSpeed = PARTICLE_COLOR_SPEED
    /\ particleLineRingDisable = PARTICLE_LINE_RING_DISABLE
    /\ DefaultParticles

\* a new iteration: nothing has been drawn in it yet
FrameBegins ==
    /\ frames' = frames + 1
    /\ pc' = "events"
    /\ cleared' = FALSE
    /\ circles' = {}
    /\ lines' = {}
    /\ UNCHANGED <<gameVars, modeVars, loopVars, ringsMaximum, rainbowIdx,
                   addNewRingCounter, printStatusLineCounter, ringsAdded,
                   events, confVars, randVars, statusLines, drawColor>>

\* the same, the loop having been held up
BeginFrameLate ==
    /\ pc = "loop"
    /\ running
    /\ frames < MaxFrames
    /\ \E d \in LongDeltas : delta' = d
    /\ FrameBegins

\* the same in a run that lasts for ManyFrames iterations
BeginFrameLong ==
    /\ pc = "loop"
    /\ running
    /\ frames < ManyFrames
    /\ \E d \in Deltas : delta' = d
    /\ FrameBegins

\* the loop as while (true)
BeginFrame_WhileTrue ==
    /\ pc = "loop"
    /\ frames < MaxFrames
    /\ \E d \in Deltas : delta' = d
    /\ FrameBegins

\* while (gState.running) { delta = currentTime - lastTime; ...
BeginFrame ==
    /\ pc = "loop"
    /\ running
    /\ frames < MaxFrames
    /\ \E d \in Deltas : delta' = d
    /\ FrameBegins

\* the loop condition fails: main tears the window down and returns
Exit ==
    /\ pc = "loop"
    /\ ~running
    /\ pc' = "exit"
    /\ UNCHANGED <<gameVars, modeVars, loopVars, ringsMaximum, rainbowIdx,
                   addNewRingCounter, printStatusLineCounter, delta,
                   ringsAdded, frames, events, confVars, randVars,
                   outputVars>>

(***************************************************************************)
(* processEvents: one action for each event it polls.                      *)
(***************************************************************************)
Polled ==
    /\ pc = "events"
    /\ events < MaxEvents
    /\ events' = events + 1
    /\ UNCHANGED <<loopVars, ringsMaximum, rainbowIdx, addNewRingCounter,
                   printStatusLineCounter, delta, pc, ringsAdded, frames,
                   confVars, outputVars>>

\* SDL_QUIT and SDLK_ESCAPE
KeyQuit ==
    /\ Polled
    /\ UNCHANGED randVars
    /\ running' = FALSE
    /\ UNCHANGED <<gameVars, fadingMode, blankMode, linesEnabled, paused,
                   colorMode, particleSpeedFactor,
                   particleLineDistanceFactor>>

KeyUp ==
    /\ Polled
    /\ UNCHANGED randVars
    /\ particleSpeedFactor < PARTICLE_SPEED_FACTOR + MaxFactorSteps
    /\ particleSpeedFactor' = particleSpeedFactor + 1
    /\ UNCHANGED <<gameVars, fadingMode, blankMode, linesEnabled, running,
                   paused, colorMode, particleLineDistanceFactor>>

KeyDown ==
    /\ Polled
    /\ UNCHANGED randVars
    /\ particleSpeedFactor' =
          IF particleSpeedFactor > 0 THEN particleSpeedFactor - 1
          ELSE particleSpeedFactor
    /\ UNCHANGED <<gameVars, fadingMode, blankMode, linesEnabled, running,
                   paused, colorMode, particleLineDistanceFactor>>

KeyLeft ==
    /\ Polled
    /\ UNCHANGED randVars
    /\ particleLineDistanceFactor' =
          IF particleLineDistanceFactor > 0
          THEN particleLineDistanceFactor - 1
          ELSE particleLineDistanceFactor
    /\ UNCHANGED <<gameVars, fadingMode, blankMode, linesEnabled, running,
                   paused, colorMode, particleSpeedFactor>>

KeyRight ==
    /\ Polled
    /\ UNCHANGED randVars
    /\ particleLineDistanceFactor <
          PARTICLE_LINE_DISTANCE_FACTOR + MaxFactorSteps
    /\ particleLineDistanceFactor' = particleLineDistanceFactor + 1
    /\ UNCHANGED <<gameVars, fadingMode, blankMode, linesEnabled, running,
                   paused, colorMode, particleSpeedFactor>>

KeyBlank ==
    /\ Polled
    /\ UNCHANGED randVars
    /\ blankMode' = ~blankMode
    /\ UNCHANGED <<gameVars, fadingMode, linesEnabled, running, paused,
                   colorMode, particleSpeedFactor,
                   particleLineDistanceFactor>>

\* 'c': while (gState.ringCount > 0) { recycleLastRing(); ringCount--; }
KeyClear ==
    /\ Polled
    /\ UNCHANGED randVars
    /\ SetGame(PruneWhileAbove(Game, 0))
    /\ UNCHANGED <<particleCount, particle, assigned, modeVars>>

KeyFading ==
    /\ Polled
    /\ UNCHANGED randVars
    /\ fadingMode' = ~fadingMode
    /\ UNCHANGED <<gameVars, blankMode, linesEnabled, running, paused,
                   colorMode, particleSpeedFactor,
                   particleLineDistanceFactor>>

KeyLines ==
    /\ Polled
    /\ UNCHANGED randVars
    /\ linesEnabled' = ~linesEnabled
    /\ UNCHANGED <<gameVars, fadingMode, blankMode, running, paused,
                   colorMode, particleSpeedFactor,
                   particleLineDistanceFactor>>

KeyColorMode ==
    /\ Polled
    /\ UNCHANGED randVars
    /\ colorMode' = (colorMode + 1) % 4
    /\ UNCHANGED <<gameVars, fadingMode, blankMode, linesEnabled, running,
                   paused, particleSpeedFactor, particleLineDistanceFactor>>

KeyPause ==
    /\ Polled
    /\ UNCHANGED randVars
    /\ paused' = ~paused
    /\ UNCHANGED <<gameVars, fadingMode, blankMode, linesEnabled, running,
                   colorMode, particleSpeedFactor,
                   particleLineDistanceFactor>>

\* 'r': randomizeMagic draws 24 values
KeyRandomize ==
    /\ Polled
    /\ randomMagic' = randState
    /\ randState' = RandAfter(randState, 3)
    /\ UNCHANGED <<gameVars, modeVars>>

(***************************************************************************)
(* The body of main's loop after processEvents.                            *)
(***************************************************************************)
\* clearScreen: fill the canvas with black, faintly in fading mode
clearScreen ==
    /\ cleared' = TRUE
    /\ drawColor' = Black(IF fadingMode THEN alphaBackground ELSE 255)

\* the loop without "if (gState.paused) goto show"
PausedOrClear_NeverPaused ==
    pc' = "spawn" /\ clearScreen

\* if (gState.paused) goto show; otherwise clearScreen() and go on
PausedOrClear ==
    IF paused
    THEN pc' = "loop" /\ UNCHANGED <<cleared, drawColor>>
    ELSE pc' = "spawn" /\ clearScreen

\* The status-line timer, then "if (gState.paused) goto show", then
\* clearScreen().  The line is printed before the catch-up loop is entered.
StatusLine ==
    /\ pc = "events"
    /\ LET c == printStatusLineCounter - delta
       IN  IF c > 0
           THEN /\ printStatusLineCounter' = c
                /\ statusLines' = statusLines
                /\ PausedOrClear
           ELSE IF CatchUpReturns(c + timerPrintStatusLine,
                                  timerPrintStatusLine)
           THEN /\ printStatusLineCounter' =
                      CatchUp(c + timerPrintStatusLine,
                              timerPrintStatusLine, 0).counter
                /\ statusLines' = statusLines + 1
                /\ PausedOrClear
           ELSE /\ printStatusLineCounter' = c + timerPrintStatusLine
                /\ statusLines' = statusLines + 1
                /\ pc' = "hung"
                /\ UNCHANGED <<cleared, drawColor>>
    /\ UNCHANGED <<gameVars, modeVars, loopVars, ringsMaximum, rainbowIdx,
                   addNewRingCounter, delta, ringsAdded, frames, events,
                   confVars, randVars, circles, lines>>

\* addNewRingCounter -= delta; on expiry re-arm once and addRing()
SpawnTimer ==
    /\ pc = "spawn"
    /\ LET c == addNewRingCounter - delta
       IN  IF c <= 0
           THEN /\ addNewRingCounter' = c + timerAddNewRing
                /\ SetGame(addRing(Game, ringsAdded + 1))
                /\ ringsAdded' = ringsAdded + 1
                /\ pc' = "prune"
           ELSE /\ addNewRingCounter' = c
                /\ UNCHANGED <<rings, ringCount, freeParticleNodes,
                               recycledParticles, ringsAdded>>
                /\ pc' = "advance"
    /\ UNCHANGED <<particleCount, particle, assigned, modeVars, loopVars,
                   ringsMaximum, rainbowIdx, printStatusLineCounter, delta,
                   frames, events, confVars, randVars, outputVars>>

\* the prune loop with the condition ringCount >= ringsMaximum
PruneStep_AtLimit ==
    /\ pc = "prune"
    /\ ringCount >= ringsMaximum
    /\ SetGame(PruneOnce(Game))
    /\ UNCHANGED <<particleCount, particle, assigned, modeVars, loopVars,
                   ringsMaximum, rainbowIdx, addNewRingCounter,
                   printStatusLineCounter, delta, pc, ringsAdded, frames,
                   events, confVars, randVars, outputVars>>

\* one turn of: while (gState.ringCount > ringsMaximum) { ... }
PruneStep ==
    /\ pc = "prune"
    /\ ringCount > ringsMaximum
    /\ SetGame(PruneOnce(Game))
    /\ UNCHANGED <<particleCount, particle, assigned, modeVars, loopVars,
                   ringsMaximum, rainbowIdx, addNewRingCounter,
                   printStatusLineCounter, delta, pc, ringsAdded, frames,
                   events, confVars, randVars, outputVars>>

\* the loop condition fails; ringPtr = gState.rings, i = 0
PruneDone ==
    /\ pc = "prune"
    /\ ~(ringCount > ringsMaximum)
    /\ pc' = "populate"
    /\ popI' = 0
    /\ popJ' = 0
    /\ UNCHANGED <<gameVars, modeVars, ringsMaximum, rainbowIdx,
                   addNewRingCounter, printStatusLineCounter, delta,
                   ringsAdded, frames, events, missedAddRing, confVars,
                   randVars, outputVars>>

\* One turn of the inner population loop: ring i gets its j-th new node.
PopulateStep ==
    /\ pc = "populate"
    /\ popI < Len(rings)
    /\ \E trap \in BOOLEAN :
       IF AssertionFails(Pool)
       THEN /\ pc' = "aborted"
            /\ UNCHANGED <<gameVars, popI, popJ, randState>>
       ELSE IF RandomizeDivides /\ trap
       THEN /\ pc' = "crashed"
            /\ UNCHANGED <<gameVars, popI, popJ, randState>>
       ELSE LET m == makeOrReclaimRandomizedParticleNode(Pool,
                                                         Draws(randState))
                ring == rings[popI + 1]
                head == ring.particleNode
                \* new->particle->height += head->particle->height
                biased == IF head # <<>>
                          THEN [m.particle EXCEPT ![m.node].height =
                                   @ + m.particle[Head(head)].height]
                          ELSE m.particle
            IN  /\ particle' = biased
                /\ assigned' = m.assigned
                /\ particleCount' = m.particleCount
                /\ recycledParticles' = m.recycledParticles
                /\ freeParticleNodes' = m.freeParticleNodes
                \* new->next = head; ringPtr->particleNode = new
                /\ rings' = [rings EXCEPT ![popI + 1].particleNode =
                                <<m.node>> \o head]
                /\ IF popJ + 1 < PopulationOf(popI)
                   THEN popJ' = popJ + 1 /\ popI' = popI
                   ELSE popJ' = 0 /\ popI' = popI + 1
                /\ randState' = RandAfter(randState, 1)
                /\ UNCHANGED <<ringCount, pc>>
    /\ UNCHANGED <<modeVars, ringsMaximum, rainbowIdx, addNewRingCounter,
                   printStatusLineCounter, delta, ringsAdded, frames,
                   events, missedAddRing, confVars, randomMagic,
                   statusLines, renderVars>>

\* ringPtr == NULL: the population is over; count the missed expiries
PopulateDone ==
    /\ pc = "populate"
    /\ ~(popI < Len(rings))
    /\ IF CatchUpReturns(addNewRingCounter, timerAddNewRing)
       THEN LET r == CatchUp(addNewRingCounter, timerAddNewRing, 0)
            IN  /\ addNewRingCounter' = r.counter
                /\ missedAddRing' = r.missed
                /\ pc' = "advance"
       ELSE /\ pc' = "hung"
            /\ UNCHANGED <<addNewRingCounter, missedAddRing>>
    /\ UNCHANGED <<gameVars, modeVars, popI, popJ, ringsMaximum, rainbowIdx,
                   printStatusLineCounter, delta, ringsAdded, frames,
                   events, confVars, randVars, outputVars>>

\* the colour index, then every particle of every ring
Advance ==
    /\ pc = "advance"
    /\ rainbowIdx' = WrapRainbow(rainbowIdx + delta * particleColorSpeed)
    /\ IF \A n \in RingNodes :
             CoordinatesReturn(Moved(particle[n], delta,
                                     particleSpeedFactor))
       THEN /\ \E ub \in NaNToInt :
                 particle' = [n \in 1..Len(particle) |->
                     IF n \in RingNodes
                     THEN AdvanceParticle(particle[n], delta,
                                          particleSpeedFactor, ub)
                     ELSE particle[n]]
            /\ pc' = "draw"
       ELSE /\ pc' = "hung"
            /\ UNCHANGED particle
    /\ UNCHANGED <<rings, ringCount, particleCount, recycledParticles,
                   freeParticleNodes, assigned, modeVars, loopVars,
                   ringsMaximum, addNewRingCounter, printStatusLineCounter,
                   delta, ringsAdded, frames, events, confVars, randVars,
                   outputVars>>

(***************************************************************************)
(* The drawing of one iteration (main, from "just finish if blank mode is   *)
(* set" to show).                                                          *)
(***************************************************************************)
\* setDrawColor(idx, gState.randomMagic, alphaElements)
setDrawColor(idx) ==
    [kind |-> "rainbow", idx |-> idx % MAX_COLORS, magic |-> randomMagic,
     a |-> IF fadingMode THEN (alphaElements * 255) \div 100 ELSE 255]

\* the drawing loops without "if (p->bornTimer > 0) continue"
Born_Always(p) == TRUE

\* if (p->bornTimer > 0) continue;  -- the particles that get past it
Born(p) == ~(p.bornTimer > 0)

\* the ring at index i has its lines disabled
LinesDisabled(i) ==
    particleLineRingDisable # -1 /\ i > particleLineRingDisable

\* d < maxDistance, for d = sqrt(xd*xd + yd*yd) and
\* maxDistance = p->lineDistance * (particleLineDistanceFactor / 100.0)
\* a - b of two coordinates.  With INT_MIN, which a NaN may have left in a
\* coordinate, the difference of unequal coordinates leaves the range of
\* int and is, wrapped, further than any line distance.
CoordinateDifference(a, b) ==
    IF a = b THEN 0
    ELSE IF a = -2147483647 - 1 \/ b = -2147483647 - 1 THEN 2147483647
    ELSE a - b

Near(p, p2) ==
    LET xd == CoordinateDifference(p2.x, p.x)
        yd == CoordinateDifference(p2.y, p.y)
        m == p.lineDistance * particleLineDistanceFactor
        reach == m \div 100 + 1
    IN  /\ m > 0
        /\ Abs(xd) <= reach
        /\ Abs(yd) <= reach
        /\ (xd * xd + yd * yd) * 10000 < m * m

\* the nodes particlePtr2 runs over: those after position k in its own ring
LineEnds_AnyRing(r, k) ==
    UNION {{rings[q].particleNode[l] : l \in 1..Len(rings[q].particleNode)} :
           q \in 1..Len(rings)} \ {rings[r].particleNode[k]}

LineEnds(r, k) ==
    {rings[r].particleNode[l] : l \in (k + 1)..Len(rings[r].particleNode)}

\* the particles DrawParticle is called for
DrawnCircles ==
    {n \in RingNodes : Born(particle[n])}

\* the pairs DrawLinesConnectingParticles is called for
DrawnLines ==
    UNION {UNION {
        LET n == rings[r].particleNode[k]
        IN  IF Born(particle[n]) /\ linesEnabled /\ ~LinesDisabled(r - 1)
            THEN {<<n, n2>> : n2 \in {e \in LineEnds(r, k) :
                                 /\ Born(particle[e])
                                 /\ Near(particle[n], particle[e])}}
            ELSE {} :
        k \in 1..Len(rings[r].particleNode)} : r \in 1..Len(rings)}

\* i * MAX_COLORS / ringsMaximum divides by zero
RingedDivides == colorMode = 1 /\ rings # <<>> /\ ringsMaximum = 0

\* what an integer division by zero yields where it does not trap
DivisionByZero == {0}

\* (unsigned int) of a float given in thousandths
Truncated(f) == f \div 1000

\* the visible particles in the order the loops reach them
RECURSIVE DrawnFrom(_)
DrawnFrom(r) ==
    IF r > Len(rings) THEN <<>>
    ELSE SelectSeq(rings[r].particleNode, LAMBDA n : Born(particle[n]))
            \o DrawnFrom(r + 1)

\* the index of the last setDrawColor call of the drawing, or -1 for none
LastColorIdx(zq, ub) ==
    LET drawn == DrawnFrom(1)
        last == particle[drawn[Len(drawn)]]
    IN  CASE colorMode = 0 -> Truncated(rainbowIdx)
          [] colorMode = 1 ->
                IF rings = <<>> THEN -1
                ELSE Truncated(rainbowIdx) +
                     (IF ringsMaximum = 0 THEN zq
                      ELSE ((Len(rings) - 1) * MAX_COLORS) \div ringsMaximum)
          [] colorMode = 2 ->
                IF drawn = <<>> THEN -1
                ELSE (IF last.position.cls = "num"
                      THEN last.position.v \div
                               ((FULL_CIRCLE * PositionUnit) \div MAX_COLORS)
                      ELSE IF ub < 0 THEN (ub % MAX_COLORS) + 1024
                      ELSE ub)
                     + Truncated(rainbowIdx)
          [] OTHER ->
                IF drawn = <<>> THEN -1
                ELSE Truncated(last.color * 1000 + rainbowIdx)

\* where main may be after the drawing of an iteration whose blank mode and
\* colour mode are as given: at the loop's top, or killed by the division
AfterDraw(blank, mode) ==
    IF ~blank /\ mode = 1 /\ rings # <<>> /\ ringsMaximum = 0
    THEN {"loop", "crashed"}
    ELSE {"loop"}

\* the drawing with the test of gState.blankMode left out
Draw_IgnoresBlank ==
    /\ pc = "draw"
    /\ \/ /\ RingedDivides
          /\ pc' = "crashed"
          /\ UNCHANGED renderVars
       \/ /\ \E zq \in DivisionByZero, ub \in NaNToInt :
                LET idx == LastColorIdx(zq, ub)
                IN  drawColor' = IF idx = -1 THEN drawColor
                                 ELSE setDrawColor(idx)
          /\ circles' = DrawnCircles
          /\ lines' = DrawnLines
          /\ pc' = "loop"
          /\ UNCHANGED cleared
    /\ UNCHANGED <<gameVars, modeVars, loopVars, ringsMaximum, rainbowIdx,
                   addNewRingCounter, printStatusLineCounter, delta,
                   ringsAdded, frames, events, confVars, randVars,
                   statusLines>>

\* blank mode, or the drawing; then show
Draw ==
    /\ pc = "draw"
    /\ \/ /\ blankMode
          /\ pc' = "loop"
          /\ UNCHANGED renderVars
       \/ /\ ~blankMode
          /\ RingedDivides
          /\ pc' = "crashed"
          /\ UNCHANGED renderVars
       \/ /\ ~blankMode
          /\ \E zq \in DivisionByZero, ub \in NaNToInt :
                LET idx == LastColorIdx(zq, ub)
                IN  drawColor' = IF idx = -1 THEN drawColor
                                 ELSE setDrawColor(idx)
          /\ circles' = DrawnCircles
          /\ lines' = DrawnLines
          /\ pc' = "loop"
          /\ UNCHANGED cleared
    /\ UNCHANGED <<gameVars, modeVars, loopVars, ringsMaximum, rainbowIdx,
                   addNewRingCounter, printStatusLineCounter, delta,
                   ringsAdded, frames, events, confVars, randVars,
                   statusLines>>

Next ==
    \/ BeginFrame
    \/ Exit
    \/ KeyQuit
    \/ KeyUp
    \/ KeyDown
    \/ KeyLeft
    \/ KeyRight
    \/ KeyBlank
    \/ KeyClear
    \/ KeyFading
    \/ KeyLines
    \/ KeyColorMode
    \/ KeyPause
    \/ KeyRandomize
    \/ StatusLine
    \/ SpawnTimer
    \/ PruneStep
    \/ PruneDone
    \/ PopulateStep
    \/ PopulateDone
    \/ Advance
    \/ Draw

Spec == Init /\ [][Next]_vars

(***************************************************************************)
(* The program with the events that reach the ring list and the loop's     *)
(* control only: quit, clear and pause.  The other keys leave gState's     *)
(* lists and counters as they are.                                         *)
(***************************************************************************)
NextRings ==
    \/ BeginFrame
    \/ Exit
    \/ KeyQuit
    \/ KeyClear
    \/ KeyPause
    \/ StatusLine
    \/ SpawnTimer
    \/ PruneStep
    \/ PruneDone
    \/ PopulateStep
    \/ PopulateDone
    \/ Advance
    \/ Draw

SpecRings == Init /\ [][NextRings]_vars

(***************************************************************************)
(* The program run with --ringsMaximum 3 and no event at all.              *)
(***************************************************************************)
InitThree == Init /\ ringsMaximum = 3

NextNoKeys ==
    \/ BeginFrame
    \/ StatusLine
    \/ SpawnTimer
    \/ PruneStep
    \/ PruneDone
    \/ PopulateStep
    \/ PopulateDone
    \/ Advance
    \/ Draw

SpecNoKeys == InitThree /\ [][NextNoKeys]_vars

(***************************************************************************)
(* The program run with --timerPrintStatusLine, held up for whole spawn    *)
(* intervals now and then; the only event is quit.                         *)
(***************************************************************************)
InitTimers ==
    /\ InitConfigured
    /\ DefaultParticles
    /\ particleColorSpeed = PARTICLE_COLOR_SPEED
    /\ particleLineRingDisable = PARTICLE_LINE_RING_DISABLE

NextTimers ==
    \/ BeginFrameLate
    \/ Exit
    \/ KeyQuit
    \/ StatusLine
    \/ SpawnTimer
    \/ PruneStep
    \/ PruneDone
    \/ PopulateStep
    \/ PopulateDone
    \/ Advance
    \/ Draw

SpecTimers == InitTimers /\ [][NextTimers]_vars

(***************************************************************************)
(* The program run with --ringsMaximum 3 and --particleColorSpeed, no      *)
(* event.                                                                  *)
(***************************************************************************)
InitColour ==
    /\ InitConfigured
    /\ DefaultParticles
    /\ ringsMaximum = 3
    /\ timerPrintStatusLine = TIMER_PRINT_STATUS_LINE
    /\ particleLineRingDisable = PARTICLE_LINE_RING_DISABLE

SpecColour == InitColour /\ [][NextNoKeys]_vars

(***************************************************************************)
(* The program run with --ringsMaximum 3 and --particleLineRingDisable;    *)
(* the events are the keys for blank mode, lines and pause.                *)
(***************************************************************************)
InitDraw ==
    /\ InitConfigured
    /\ DefaultParticles
    /\ ringsMaximum = 3
    /\ timerPrintStatusLine = TIMER_PRINT_STATUS_LINE
    /\ particleColorSpeed = PARTICLE_COLOR_SPEED

NextDraw ==
    \/ BeginFrame
    \/ KeyBlank
    \/ KeyLines
    \/ KeyPause
    \/ StatusLine
    \/ SpawnTimer
    \/ PruneStep
    \/ PruneDone
    \/ PopulateStep
    \/ PopulateDone
    \/ Advance
    \/ Draw

SpecDraw == InitDraw /\ [][NextDraw]_vars

(***************************************************************************)
(* The program run with --ringsMaximum 1 and every event processEvents     *)
(* handles.                                                                *)
(***************************************************************************)
InitQuit == Init /\ ringsMaximum = 1 /\ randomMagic = 0

SpecQuit == InitQuit /\ [][Next]_vars

(***************************************************************************)
(* The program run with --ringsMaximum; the only event is the key for the  *)
(* colour mode.                                                            *)
(***************************************************************************)
NextRinged ==
    \/ BeginFrame
    \/ KeyColorMode
    \/ StatusLine
    \/ SpawnTimer
    \/ PruneStep
    \/ PruneDone
    \/ PopulateStep
    \/ PopulateDone
    \/ Advance
    \/ Draw

SpecRinged == Init /\ [][NextRinged]_vars

(***************************************************************************)
(* The program run with --ringsMaximum 5, no event: rings reach the age    *)
(* index 4 and are pruned from there.                                      *)
(***************************************************************************)
InitManyRings ==
    /\ Started
    /\ DefaultStart
    /\ DefaultParticles
    /\ ringsMaximum = ManyRings
    /\ timerPrintStatusLine = TIMER_PRINT_STATUS_LINE
    /\ particleColorSpeed = PARTICLE_COLOR_SPEED
    /\ particleLineRingDisable = PARTICLE_LINE_RING_DISABLE

NextManyRings ==
    \/ BeginFrameLong
    \/ StatusLine
    \/ SpawnTimer
    \/ PruneStep
    \/ PruneDone
    \/ PopulateStep
    \/ PopulateDone
    \/ Advance
    \/ Draw

SpecManyRings == InitManyRings /\ [][NextManyRings]_vars

(***************************************************************************)
(* The program run with --ringsMaximum 2 and the options for the height of *)
(* the particles (--particleHeightMinimum, --particleHeightMaximum,        *)
(* --particleExpandRate), no event.                                        *)
(***************************************************************************)
InitParticles ==
    /\ InitConfigured
    /\ ringsMaximum = 2
    /\ particleSpeedFactor = PARTICLE_SPEED_FACTOR
    /\ timerPrintStatusLine = TIMER_PRINT_STATUS_LINE
    /\ particleColorSpeed = PARTICLE_COLOR_SPEED
    /\ particleLineRingDisable = PARTICLE_LINE_RING_DISABLE

SpecParticles == InitParticles /\ [][NextNoKeys]_vars

(***************************************************************************)
(* particleCalculateCoordinates on its own: a particle with any position,  *)
(* the function called on it, called again, and called by the update of    *)
(* main's loop.                                                            *)
(***************************************************************************)
\* Positions a particle starts from, in units of 2^-17 degree, each of them
\* a float: around 0, around a full circle, negative, and several circles
\* away.
StartPositions ==
    {0, 1, -1, -2, -3, -PositionUnit,
     359 * PositionUnit, FULL_CIRCLE * PositionUnit - 4,
     FULL_CIRCLE * PositionUnit, FULL_CIRCLE * PositionUnit + 4,
     719 * PositionUnit, 2 * FULL_CIRCLE * PositionUnit,
     -FULL_CIRCLE * PositionUnit, -FULL_CIRCLE * PositionUnit - 4,
     -725 * PositionUnit, 3 * FULL_CIRCLE * PositionUnit}

StartParticles ==
    {[UnsetParticle EXCEPT !.position = Num(v), !.height = h * 1000,
                           !.speed = s] :
        v \in StartPositions, h \in {0, 200}, s \in {-29, -1, 0, 1}}

InitCoordinates ==
    /\ Configured
    /\ DefaultStart
    /\ particleHeightMinimum = PARTICLE_HEIGHT_MINIMUM
    /\ particleHeightMaximum = PARTICLE_HEIGHT_MAXIMUM
    /\ particleExpandRate = PARTICLE_EXPAND_RATE
    /\ timerPrintStatusLine = TIMER_PRINT_STATUS_LINE
    /\ particleColorSpeed = PARTICLE_COLOR_SPEED
    /\ particleLineRingDisable = PARTICLE_LINE_RING_DISABLE
    /\ ringsMaximum = 0
    /\ randomMagic = 0
    /\ particleCount = 1
    /\ \E p \in StartParticles : particle = <<p>>
    /\ assigned = <<ParticleFields>>
    /\ pc = "start"

\* particleCalculateCoordinates(p), for the first time and again
CallCoordinates ==
    /\ pc \in {"start", "once"}
    /\ CoordinatesReturn(particle[1])
    /\ \E ub \in NaNToInt :
          particle' = <<particleCalculateCoordinates(
                          [val |-> particle[1], set |-> {}], ub).val>>
    /\ pc' = IF pc = "start" THEN "once" ELSE "twice"
    /\ UNCHANGED <<rings, ringCount, particleCount, recycledParticles,
                   freeParticleNodes, assigned, modeVars, loopVars,
                   ringsMaximum, rainbowIdx, addNewRingCounter,
                   printStatusLineCounter, delta, ringsAdded, frames,
                   events, confVars, randVars, outputVars>>

\* the update of one particle in main's loop, which ends in the call
CallAdvance ==
    /\ pc \in {"once", "twice"}
    /\ frames < MaxFrames
    /\ frames' = frames + 1
    /\ \E d \in ShortDeltas :
          /\ delta' = d
          /\ CoordinatesReturn(Moved(particle[1], d, particleSpeedFactor))
          /\ \E ub \in NaNToInt :
                particle' = <<AdvanceParticle(particle[1], d,
                                              particleSpeedFactor, ub)>>
    /\ pc' = "once"
    /\ UNCHANGED <<rings, ringCount, particleCount, recycledParticles,
                   freeParticleNodes, assigned, modeVars, loopVars,
                   ringsMaximum,
                   rainbowIdx, addNewRingCounter, printStatusLineCounter,
                   ringsAdded, events, confVars, randVars, outputVars>>

NextCoordinates == CallCoordinates \/ CallAdvance

SpecCoordinates == InitCoordinates /\ [][NextCoordinates]_vars

(***************************************************************************)
(* The program run with --ringsMaximum 2 and the options its loops depend  *)
(* on (--timerPrintStatusLine, --timerAddNewRing, --particleExpandRate),   *)
(* held up now and then; the only event is quit.                           *)
(***************************************************************************)
InitLoops ==
    /\ Started
    /\ paused = FALSE
    /\ ringsMaximum = 2
    /\ particleSpeedFactor = PARTICLE_SPEED_FACTOR
    /\ particleHeightMinimum = PARTICLE_HEIGHT_MINIMUM
    /\ particleHeightMaximum = PARTICLE_HEIGHT_MAXIMUM
    /\ particleColorSpeed = PARTICLE_COLOR_SPEED
    /\ particleLineRingDisable = PARTICLE_LINE_RING_DISABLE

SpecLoops == InitLoops /\ [][NextTimers]_vars

(***************************************************************************)
(* The program run with --ringsMaximum 1, with or without --paused, and    *)
(* the two timer options, held up now and then; the only event is the key  *)
(* for pause.                                                              *)
(***************************************************************************)
InitPause ==
    /\ Started
    /\ ringsMaximum = 1
    /\ randomMagic = 0
    /\ DefaultParticles
    /\ particleColorSpeed = PARTICLE_COLOR_SPEED
    /\ particleLineRingDisable = PARTICLE_LINE_RING_DISABLE

NextPause ==
    \/ BeginFrameLate
    \/ KeyPause
    \/ StatusLine
    \/ SpawnTimer
    \/ PruneStep
    \/ PruneDone
    \/ PopulateStep
    \/ PopulateDone
    \/ Advance
    \/ Draw

SpecPause == InitPause /\ [][NextPause]_vars

(***************************************************************************)
(* The program run with --ringsMaximum 0 or 2 and the events of the        *)
(* render flags (blank, fading, lines, colour mode) beside pause, clear    *)
(* and quit.                                                               *)
(***************************************************************************)
InitFlags ==
    /\ Init
    /\ ringsMaximum \in {0, 2}
    /\ randomMagic = 0

NextFlags ==
    \/ BeginFrame
    \/ Exit
    \/ KeyQuit
    \/ KeyBlank
    \/ KeyClear
    \/ KeyFading
    \/ KeyLines
    \/ KeyColorMode
    \/ KeyPause
    \/ StatusLine
    \/ SpawnTimer
    \/ PruneStep
    \/ PruneDone
    \/ PopulateStep
    \/ PopulateDone
    \/ Advance
    \/ Draw

SpecFlags == InitFlags /\ [][NextFlags]_vars

(***************************************************************************)
(* Properties.                                                             *)
(***************************************************************************)
RingIds == [k \in 1..Len(rings) |-> rings[k].id]
NodesOfRing(ring) == {ring.particleNode[k] : k \in 1..Len(ring.particleNode)}
FreeNodes == {freeParticleNodes[k] : k \in 1..Len(freeParticleNodes)}
Occurrences(q, n) == Cardinality({k \in 1..Len(q) : q[k] = n})
\* how often node n is linked into ring lists and into the free list
TimesInRings(n) ==
    LET RECURSIVE Sum(_)
        Sum(r) == IF r = 0 THEN 0
                  ELSE Occurrences(rings[r].particleNode, n) + Sum(r - 1)
    IN  Sum(Len(rings))
TimesInPool(n) == Occurrences(freeParticleNodes, n)

\* C1: once a ring-spawn expiry has been handled in full (addRing, the
\* prune loop, the population), no more than ringsMaximum rings are linked
\* in the ring list.
C1_RingsWithinMaximum ==
    pc = "advance" => Len(rings) <= ringsMaximum

\* C2: a prune step of main (recycleLastRing, then ringCount--) on a ring
\* list that is not empty unlinks exactly one ring, adds the number of that
\* ring's particle nodes to recycledParticles, and takes one from ringCount.
C2_PruneStepRemovesOneRing ==
    [][(PruneStep /\ Len(rings) >= 1) =>
          /\ Len(rings') = Len(rings) - 1
          /\ recycledParticles' = recycledParticles +
                Len(rings[Len(rings)].particleNode)
          /\ ringCount' = ringCount - 1]_vars

\* C3: n calls of recycleLastRing on a list of n >= 1 rings (the clear key
\* makes them when ringCount is the length of the list) leave the ring list
\* empty and every particle node of those rings in the free pool.
C3_AllRingsRecycled ==
    [][(KeyClear /\ Len(rings) >= 1 /\ ringCount = Len(rings)) =>
          /\ rings' = <<>>
          /\ \A r \in 1..Len(rings) :
                NodesOfRing(rings[r]) \subseteq FreeNodes']_vars

\* C4: rings leave the list in the order they entered it.  The list runs
\* from the ring added last (head) to the ring added first (tail) in every
\* state, a step that lengthens it puts a ring newer than all others at the
\* head, and a step that shortens it cuts rings off the tail, the oldest.
IsPrefix(a, b) == Len(a) <= Len(b) /\ a = SubSeq(b, 1, Len(a))
NewestFirst(ids) == \A k \in 1..(Len(ids) - 1) : ids[k] > ids[k + 1]
C4_InsertionOrder ==
    [][/\ NewestFirst(RingIds')
       /\ Len(RingIds') > Len(RingIds) =>
             /\ Tail(RingIds') = RingIds
             /\ \A k \in 1..Len(RingIds) : Head(RingIds') > RingIds[k]
       /\ Len(RingIds') <= Len(RingIds) => IsPrefix(RingIds', RingIds)]_vars

\* a prune has removed the oldest ring from a list of several, and rings
\* have been added since
C4_Witness ==
    /\ Len(rings) >= 2
    /\ rings[Len(rings)].id > 1
    /\ rings[1].id = ringsAdded

\* C5: when the clear key has been processed the ring list is empty,
\* ringCount is 0 and every allocated particle node is in the free pool.
C5_ClearEmptiesRings ==
    [][KeyClear =>
          /\ rings' = <<>>
          /\ ringCount' = 0
          /\ recycledParticles' = particleCount']_vars

\* C6: recycledParticles is the number of nodes on the free list, and the
\* assertion recycledParticles == 0 of the allocating branch never fails.
C6_RecycledCountsFreeList ==
    /\ recycledParticles = Len(freeParticleNodes)
    /\ pc # "aborted"

\* the free list holds nodes after some of a retired ring's nodes have been
\* taken out of it again
C6_Witness ==
    /\ pc = "populate"
    /\ popJ > 0
    /\ recycledParticles > 0
    /\ recycledParticles < particleCount

\* C7: every allocated particle node is linked exactly once: in one ring's
\* list or in the free list.
C7_OneOwner ==
    \A n \in 1..particleCount : TimesInRings(n) + TimesInPool(n) = 1

\* nodes are owned by several rings and by the pool at the same time
C7_Witness ==
    /\ Len(rings) >= 2
    /\ \A r \in 1..Len(rings) : rings[r].particleNode # <<>>
    /\ freeParticleNodes # <<>>

\* C8: a call of makeOrReclaimRandomizedParticleNode allocates (and counts
\* in particleCount) only when the free pool is empty; otherwise it hands
\* out the head of the pool, takes one from recycledParticles and leaves
\* particleCount alone.
C8_ReuseBeforeAllocate ==
    [][(pc = "populate" /\ rings' # rings) =>
          LET node == Head(rings'[popI + 1].particleNode)
          IN  IF freeParticleNodes = <<>>
              THEN /\ particleCount' = particleCount + 1
                   /\ node = particleCount'
                   /\ recycledParticles' = recycledParticles
                   /\ freeParticleNodes' = <<>>
              ELSE /\ particleCount' = particleCount
                   /\ node = Head(freeParticleNodes)
                   /\ recycledParticles' = recycledParticles - 1
                   /\ freeParticleNodes' = Tail(freeParticleNodes)]_vars

\* the ring being populated has just received a node from the pool (not
\* the node allocated last), and the pool holds more
C8_Witness ==
    /\ pc = "populate"
    /\ popJ > 0
    /\ freeParticleNodes # <<>>
    /\ Head(rings[popI + 1].particleNode) < particleCount

\* C9: every node linked into a ring has had its next link and all the
\* fields of its particle written since it was allocated or taken from the
\* pool: nothing is left from malloc or from a retired ring.
C9_RandomizedBeforeUse ==
    \A n \in RingNodes : assigned[n] = NodeFields

\* a node that came out of the pool heads a ring
C9_Witness ==
    /\ pc = "populate"
    /\ popI < Len(rings)
    /\ popJ > 0
    /\ freeParticleNodes # <<>>
    /\ assigned[Head(rings[popI + 1].particleNode)] = NodeFields

\* C10: with ringsMaximum = 3 and no events, no prune step happens before
\* the 4th ring is added; the 4th expiry's prune step finds the free pool
\* empty, removes the ring added first and nothing else, puts all its nodes
\* in the pool, and is the only one before the population starts.
C10_FourthExpiryPrunesFirstRing ==
    [][/\ (pc = "prune" /\ ringsAdded <= 3) =>
             (pc' = "populate" /\ rings' = rings /\
              freeParticleNodes' = <<>>)
       /\ (pc = "prune" /\ pc' = "prune" /\ ringsAdded = 4) =>
             /\ freeParticleNodes = <<>>
             /\ RingIds = <<4, 3, 2, 1>>
             /\ RingIds' = <<4, 3, 2>>
             /\ FreeNodes' = NodesOfRing(rings[4])
             /\ recycledParticles' = Len(rings[4].particleNode)
             /\ ~(ringCount' > ringsMaximum')]_vars

\* the 4th expiry has pruned and is about to populate
C10_Witness ==
    /\ pc = "populate"
    /\ popI = 0
    /\ popJ = 0
    /\ ringsAdded = 4
    /\ RingIds = <<4, 3, 2>>
    /\ recycledParticles = 12

\* the step that ends the handling of the k-th ring-spawn expiry
ExpiryHandled(k) ==
    pc = "populate" /\ pc' = "advance" /\ ringsAdded = k

\* C11 as stated: when the first ring-spawn expiry has been handled,
\* ringCount = 1, particleCount is the population of age index 0, and the
\* free pool is empty -- whatever ringsMaximum is.
C11_FirstExpiryAnyMaximum ==
    [][ExpiryHandled(1) =>
          /\ ringCount' = 1
          /\ particleCount' = 4
          /\ freeParticleNodes' = <<>>
          /\ recycledParticles' = 0]_vars

\* C11, amended: with ringsMaximum >= 1, when the first ring-spawn expiry
\* has been handled, ringCount = 1, one ring is linked, particleCount is 4
\* (the population of age index 0) and the free pool is empty.
C11_FirstExpiry ==
    [][(ExpiryHandled(1) /\ ringsMaximum >= 1) =>
          /\ ringCount' = 1
          /\ Len(rings') = 1
          /\ Len(rings'[1].particleNode) = 4
          /\ particleCount' = 4
          /\ freeParticleNodes' = <<>>
          /\ recycledParticles' = 0]_vars

\* the first expiry has been handled under a maximum of one ring or more
C11_Witness ==
    /\ pc = "advance"
    /\ ringsAdded = 1
    /\ ringsMaximum >= 1
    /\ ringCount = 1
    /\ particleCount = 4

\* C12 as stated: when the second expiry has been handled (no pruning, no
\* key), ringCount = 2, the ring at age index 0 holds two batches and the
\* ring at age index 1 holds one.
C12_SecondExpiryNewestHoldsTwo ==
    [][ExpiryHandled(2) =>
          /\ ringCount' = 2
          /\ Len(rings'[1].particleNode) = 4 + 4
          /\ Len(rings'[2].particleNode) = 4]_vars

\* C12, amended: when the second expiry has been handled (no pruning, no
\* key), ringCount = 2; the ring added first is at age index 1 and has
\* gained another batch (two batches), and the ring just added is at age
\* index 0 and holds only its first batch.
C12_SecondExpiry ==
    [][ExpiryHandled(2) =>
          /\ ringCount' = 2
          /\ RingIds' = <<2, 1>>
          /\ Len(rings'[2].particleNode) = 4 + 4
          /\ Len(rings'[1].particleNode) = 4
          /\ particleCount' = 12]_vars

\* the second expiry has been handled
C12_Witness ==
    /\ pc = "advance"
    /\ ringsAdded = 2
    /\ RingIds = <<2, 1>>
    /\ particleCount = 12

\* C13: the ring-spawn action runs at most once in an iteration of the
\* loop, however long the loop was held up.  No more rings have been added
\* than iterations begun; a step adds at most one ring; outside the
\* population a ring holds one batch of 4 for each expiry since it was
\* added; and the step that ends an expiry found m whole intervals past
\* the one that fired, adds m intervals to the counter, reports m as the
\* missed add-ring calls and touches no ring.
C13_OneSpawnPerIteration ==
    [][/\ ringsAdded' <= frames'
       /\ ringsAdded' \in {ringsAdded, ringsAdded + 1}
       /\ ringsAdded' # ringsAdded => Len(rings') = Len(rings) + 1
       /\ pc' \in {"advance", "draw", "loop", "events", "spawn"} =>
             \A r \in 1..Len(rings') :
                Len(rings'[r].particleNode) =
                   4 * (ringsAdded' - rings'[r].id + 1)
       /\ (pc = "populate" /\ pc' = "advance") =>
             LET m == (timerAddNewRing - addNewRingCounter)
                         \div timerAddNewRing
             IN  /\ missedAddRing' = m
                 /\ addNewRingCounter' =
                       addNewRingCounter + m * timerAddNewRing
                 /\ addNewRingCounter' \in 1..timerAddNewRing
                 /\ rings' = rings
                 /\ particleCount' = particleCount]_vars

\* an iteration held up for two intervals or more has added its one ring
\* to a list that held rings already
C13_Witness ==
    /\ pc = "advance"
    /\ missedAddRing >= 2
    /\ ringsAdded >= 2
    /\ Len(rings) >= 2

\* C14: with timerPrintStatusLine = 0 no status line is printed and no
\* iteration of the loop gets stuck.
C14_ZeroDisablesStatusLine ==
    timerPrintStatusLine = 0 => (statusLines = 0 /\ pc # "hung")

\* C15: bornTimer >= 0 for every particle in every state.  The update of
\* an iteration takes delta from the bornTimer of each particle in a ring
\* and stops at 0; a bornTimer that is 0 stays 0 until the node is taken
\* from the free pool and randomized again.
C15_BornTimerNeverNegative ==
    [][/\ \A n \in 1..Len(particle') : particle'[n].bornTimer >= 0
       /\ (pc = "advance" /\ pc' = "draw") =>
             \A n \in RingNodes :
                particle'[n].bornTimer =
                   IF particle[n].bornTimer > delta
                   THEN particle[n].bornTimer - delta ELSE 0
       /\ \A n \in 1..Len(particle) :
             (particle[n].bornTimer = 0 /\ particle'[n].bornTimer # 0) =>
                /\ pc = "populate"
                /\ freeParticleNodes # <<>>
                /\ n = Head(freeParticleNodes)
                /\ n = Head(rings'[popI + 1].particleNode)]_vars

\* after an update one particle is part of the way through its countdown
\* and another has reached 0 from above
C15_Witness ==
    /\ pc = "draw"
    /\ delta = 400
    /\ \E n \in RingNodes : particle[n].bornTimer \in {300, 599}
    /\ \E n \in RingNodes :
          particle[n].bornTimer = 0 /\ particle[n].lineDistance = 180

\* C16 as stated: after the update of the colour index in an iteration,
\* 0 <= rainbowIdx < MAX_COLORS.
C16_RainbowIdxBelowMaximum ==
    [][(pc = "advance" /\ pc' = "draw") =>
          (rainbowIdx' >= 0 /\ rainbowIdx' < MAX_COLORS * 1000)]_vars

\* C16, amended: after the update of the colour index in an iteration,
\* 0 < rainbowIdx <= MAX_COLORS, and rainbowIdx is the old index plus
\* delta / 1000 * particleColorSpeed up to a multiple of MAX_COLORS.
C16_RainbowIdxWrapped ==
    [][(pc = "advance" /\ pc' = "draw") =>
          /\ rainbowIdx' > 0
          /\ rainbowIdx' <= MAX_COLORS * 1000
          /\ (rainbowIdx' - rainbowIdx - delta * particleColorSpeed)
                 % (MAX_COLORS * 1000) = 0]_vars

\* the index has gone past MAX_COLORS and come round
C16_Witness ==
    /\ pc = "draw"
    /\ particleColorSpeed > 0
    /\ frames >= 3
    /\ rainbowIdx < 400 * frames * particleColorSpeed

\* the ring-spawn timer, the colour index and the particles of the rings
\* move on by delta in the steps of an unpaused iteration
TimerStepped ==
    /\ addNewRingCounter' =
          IF addNewRingCounter > delta THEN addNewRingCounter - delta
          ELSE addNewRingCounter - delta + timerAddNewRing
    /\ (pc' = "prune") = (addNewRingCounter <= delta)
    /\ (pc' = "advance") = (addNewRingCounter > delta)
ParticlesStepped ==
    /\ pc' = "draw"
    /\ (rainbowIdx' - rainbowIdx - delta * particleColorSpeed)
          % (MAX_COLORS * 1000) = 0
    /\ rainbowIdx' # rainbowIdx
    /\ \A n \in RingNodes :
          /\ particle'[n].height =
                particle[n].height + delta * particleExpandRate
          /\ particle'[n].bornTimer =
                IF particle[n].bornTimer > delta
                THEN particle[n].bornTimer - delta ELSE 0

\* C17 as stated: in an unpaused iteration with blank mode set no draw call
\* is made (no background clear, no circle, no line) and the draw colour is
\* left alone, while the ring-spawn timer, the colour index and the
\* particles are advanced.
C17_BlankModeDrawsNothing ==
    [][blankMode =>
          /\ pc = "spawn" => TimerStepped
          /\ pc = "advance" => ParticlesStepped
          /\ pc = "draw" =>
                /\ ~cleared'
                /\ circles' = {}
                /\ lines' = {}
                /\ drawColor' = drawColor]_vars

\* C17, amended: in an unpaused iteration with blank mode set the only
\* draw call is the background clear that every unpaused iteration makes
\* before its timers (clearScreen, which sets the draw colour to black);
\* no circle and no line is drawn and the draw colour is not set again,
\* while the ring-spawn timer, the colour index and the particles are
\* advanced by the elapsed time.
C17_BlankModeOnlyClears ==
    [][blankMode =>
          /\ (pc = "events" /\ pc' = "spawn") =>
                (cleared' /\ drawColor'.kind = "black")
          /\ pc = "spawn" => (TimerStepped /\ UNCHANGED renderVars)
          /\ pc = "advance" => (ParticlesStepped /\ UNCHANGED renderVars)
          /\ pc = "draw" =>
                /\ pc' = "loop"
                /\ cleared'
                /\ circles' = {}
                /\ lines' = {}
                /\ drawColor' = drawColor]_vars

\* a blank iteration has ended with a particle in a ring that an iteration
\* without blank mode would have drawn
C17_Witness ==
    /\ pc = "loop"
    /\ blankMode
    /\ ~paused
    /\ frames >= 2
    /\ cleared
    /\ circles = {}
    /\ \E n \in RingNodes : particle[n].bornTimer = 0

\* C18: every line drawn in an iteration joins two different particles of
\* one ring, both with bornTimer = 0.
C18_LinesWithinOneRing ==
    \A l \in lines :
       /\ l[1] # l[2]
       /\ \E r \in 1..Len(rings) :
             {l[1], l[2]} \subseteq NodesOfRing(rings[r])
       /\ particle[l[1]].bornTimer = 0
       /\ particle[l[2]].bornTimer = 0

\* lines have been drawn while there are several rings and a ring with a
\* line in it holds a particle not yet born
C18_Witness ==
    /\ Len(rings) >= 2
    /\ \E l \in lines : \E r \in 1..Len(rings) :
          /\ l[1] \in NodesOfRing(rings[r])
          /\ \E n \in NodesOfRing(rings[r]) : particle[n].bornTimer > 0

\* C19: with particleLineRingDisable = N >= 0 no line is drawn inside a
\* ring at age index N or beyond.
C19_NoLinesFromRingN ==
    particleLineRingDisable >= 0 =>
       \A l \in lines : \A r \in 1..Len(rings) :
          l[1] \in NodesOfRing(rings[r]) => r - 1 < particleLineRingDisable

\* C20: a circle is drawn only for a particle whose bornTimer is 0 when the
\* drawing is done; a particle with bornTimer > 0 is not drawn, and the
\* update of every unpaused iteration moves it like the others.
C20_OnlyBornParticlesDrawn ==
    [][/\ \A n \in circles' : particle'[n].bornTimer = 0
       /\ (pc = "draw" /\ ~blankMode) =>
             circles' = {n \in RingNodes : particle[n].bornTimer = 0}
       /\ pc = "advance" =>
             \A n \in RingNodes :
                particle[n].bornTimer > 0 =>
                   particle'[n].height =
                      particle[n].height + delta * particleExpandRate]_vars

\* circles have been drawn, but none for a particle that is on its way
\* outwards and not born yet
C20_Witness ==
    /\ pc = "loop"
    /\ circles # {}
    /\ \E n \in RingNodes \ circles :
          /\ particle[n].bornTimer > 0
          /\ particle[n].height >= 400 * particleExpandRate

\* C21: quitting is cooperative and absorbing.  Once a quit event (the window
\* closed, or Escape) has been processed, running stays false whatever event
\* or timer follows, and no new iteration begins; main leaves its loop only
\* at the loop's top, the iteration in which the event arrived having run to
\* its end: unless paused it has cleared the canvas, and unless blank mode
\* is on it has drawn the particles.
C21_QuitAbsorbing ==
    [][/\ ~running => ~running' /\ frames' = frames
       /\ pc' = "exit" =>
            /\ ~running /\ pc = "loop"
            /\ ~paused' => cleared'
            /\ ~paused' /\ ~blankMode' => circles' = DrawnCircles']_vars

\* main has left its loop after a quit event that was followed by another
\* event, part of the iteration having run after it
C21_Witness ==
    /\ pc = "exit"
    /\ ~running
    /\ events = 2
    /\ cleared

\* C22: after particleCalculateCoordinates has returned, the particle's
\* position lies in [0, 360), whatever position it started from, the
\* positions the update of main's loop produces with a negative speed
\* included.
C22_PositionWithinCircle ==
    pc \in {"once", "twice"} =>
        /\ particle[1].position.v >= 0
        /\ particle[1].position.v < FULL_CIRCLE * PositionUnit

\* C23: particleCalculateCoordinates called a second time, nothing having
\* changed in between, leaves position, x and y as the first call left them.
C23_Idempotent ==
    [][pc = "once" /\ pc' = "twice" =>
          /\ particle'[1].position = particle[1].position
          /\ particle'[1].x = particle[1].x
          /\ particle'[1].y = particle[1].y]_vars

\* x and y of p are what particleCalculateCoordinates makes of p's position
\* and height
Fresh(p) ==
    \E ub \in NaNToInt :
        LET q == particleCalculateCoordinates([val |-> p, set |-> {}], ub).val
        IN  q.x = p.x /\ q.y = p.y

\* the nodes that were linked in front of another node of their ring
Prepended ==
    UNION {{rings[r].particleNode[k] :
               k \in 1..(Len(rings[r].particleNode) - 1)} :
           r \in 1..Len(rings)}

\* C24 as claimed: after every operation that changes a particle's position
\* or height, the head-height bias of the population included, the
\* particle's x and y are the coordinates of its position and height.
C24_CoordinatesNeverStale ==
    \A n \in RingNodes \cup FreeNodes : Fresh(particle[n])

\* C24 amended: after randomizeParticle and after the update of main's loop
\* a particle's x and y are the coordinates of its position and height.  The
\* head-height bias of the population changes the height alone: x and y of
\* a node linked in front of another stay as randomizeParticle set them
\* until the update of the same iteration, which comes before the drawing.
C24_CoordinatesFreshWhenDrawn ==
    /\ pc \in {"loop", "events", "spawn", "prune", "draw", "exit"} =>
          \A n \in RingNodes \cup FreeNodes : Fresh(particle[n])
    /\ \A n \in (RingNodes \cup FreeNodes) \ Prepended : Fresh(particle[n])

\* the drawing is about to start with a ring whose head node got its height
\* from the node behind it, and the coordinates of both are up to date
C24_Witness ==
    /\ pc = "draw"
    /\ \E r \in 1..Len(rings) :
          /\ Len(rings[r].particleNode) >= 2
          /\ LET p == particle[rings[r].particleNode[1]]
                 p2 == particle[rings[r].particleNode[2]]
             IN  /\ p.height > p2.height
                 /\ p.height > particleHeightMaximum * 1000
                 /\ p.y # 0
                 /\ p2.y # 0

\* C25: the update of main's loop never divides by a height of zero: when it
\* scales a particle's speed by the height, the height is above 0, also for
\* a particle randomized with height 0 in an iteration whose delta or whose
\* particleExpandRate is 0.
C25_NoDivisionByZeroHeight ==
    [][pc = "advance" =>
          \A n \in RingNodes :
              Moved(particle[n], delta, particleSpeedFactor).height > 0]_vars

\* what the rings at the age indices 0..i gain together in one expiry, which
\* is what the ring at index i has gained in the expiries of its life
RECURSIVE GainedUpTo(_)
GainedUpTo(i) == IF i < 0 THEN 0 ELSE (i \div 4) + 4 + GainedUpTo(i - 1)

\* C26: on each ring-spawn expiry the ring at age index i (0 the newest,
\* counted after the pruning) gains exactly (i / 4) + 4 particles, each of
\* them linked at the head of the ring's list; a ring that has lived through
\* k + 1 expiries holds the sum of (i / 4) + 4 over i = 0..k.
C26_RingGainsByAge ==
    [][/\ pc = "populate" /\ pc' = "populate" =>
            /\ popJ < (popI \div 4) + 4
            /\ Len(rings') = Len(rings)
            /\ \A r \in 1..Len(rings) :
                  IF r = popI + 1
                  THEN /\ Len(rings'[r].particleNode) =
                            Len(rings[r].particleNode) + 1
                       /\ Tail(rings'[r].particleNode) =
                            rings[r].particleNode
                       /\ Len(rings'[r].particleNode) =
                            GainedUpTo(popI - 1) + popJ + 1
                  ELSE rings'[r] = rings[r]
       /\ pc = "populate" /\ pc' = "advance" =>
            \A r \in 1..Len(rings') :
                Len(rings'[r].particleNode) = GainedUpTo(r - 1)]_vars

\* the fifth expiry is over: the oldest ring, at age index 4, has gained
\* four times 4 particles and now 5
C26_Witness ==
    /\ pc = "advance"
    /\ Len(rings) = 5
    /\ Len(rings[5].particleNode) = 21
    /\ Len(rings[4].particleNode) = 16

\* C27: addRing links a new, empty ring at the head of the ring list and
\* adds one to ringCount; the rings already there keep their particles and
\* their order; the free list, particleCount and recycledParticles are left
\* as they were.
C27_AddRingAtHead ==
    [][pc = "spawn" /\ pc' = "prune" =>
          /\ Len(rings') = Len(rings) + 1
          /\ Head(rings').particleNode = <<>>
          /\ Head(rings').id \notin {rings[r].id : r \in 1..Len(rings)}
          /\ Tail(rings') = rings
          /\ ringCount' = ringCount + 1
          /\ freeParticleNodes' = freeParticleNodes
          /\ particleCount' = particleCount
          /\ recycledParticles' = recycledParticles
          /\ particle' = particle]_vars

\* addRing has just run with a populated ring in the list and nodes in the
\* free list
C27_Witness ==
    /\ pc = "prune"
    /\ Len(rings) >= 2
    /\ rings[1].particleNode = <<>>
    /\ rings[2].particleNode # <<>>
    /\ freeParticleNodes # <<>>
    /\ recycledParticles > 0

\* C28: while the program is paused, an iteration of the loop in which no
\* key arrives leaves the ring list, every particle, the free list,
\* ringCount, particleCount, recycledParticles, the ring-spawn counter and
\* the colour index as they are; only the status-line counter goes on.
C28_PausedFrameChangesNothing ==
    [][/\ paused' => pc' \in {"loop", "events", "exit"}
       /\ paused /\ pc = "loop" /\ pc' = "events" =>
            UNCHANGED <<gameVars, addNewRingCounter, rainbowIdx,
                        printStatusLineCounter>>
       /\ paused /\ pc = "events" /\ events' = events =>
            /\ pc' = "loop"
            /\ UNCHANGED <<gameVars, addNewRingCounter, rainbowIdx>>
            /\ \E k \in 0..2 :
                  printStatusLineCounter' =
                     printStatusLineCounter - delta
                        + k * timerPrintStatusLine
            /\ printStatusLineCounter' > 0
            /\ printStatusLineCounter' # printStatusLineCounter]_vars

\* paused since the fourth iteration at the latest (a second ring would have
\* been added otherwise), the fifth iteration has run without a key
C28_Witness ==
    /\ paused
    /\ pc = "loop"
    /\ events = 1
    /\ frames = 5
    /\ ringsMaximum = 3
    /\ Len(rings) = 1
    /\ rings[1].particleNode # <<>>

\* C29: for every configuration with bounds that are not negative and
\* max >= min, max = min included, randomizeParticle has no error outcome
\* and no undefined arithmetic, and what it draws lies in the configured
\* range: radius, height and lineDistance in [min, max), the speed below
\* particleSpeedMaximum in magnitude, bornTimer in [0,
\* particleBornTimerMaximum), position in [0, 360), color in [0, 1536).
C29_RandomizeWithinRanges ==
    [][pc = "populate" /\ popI < Len(rings) /\ pc' # "aborted" =>
          /\ ~RandomizeDivides
          /\ pc' # "crashed"
          /\ LET new == rings'[popI + 1].particleNode
                 p == particle'[new[1]]
                 \* the height as drawn, before the head's height is added
                 height == IF Len(new) > 1
                           THEN p.height - particle[new[2]].height
                           ELSE p.height
             IN  /\ p.radius >= particleRadiusMinimum
                 /\ p.radius < particleRadiusMaximum
                 /\ height >= particleHeightMinimum * 1000
                 /\ height < particleHeightMaximum * 1000
                 /\ p.lineDistance >= particleLineDistanceMinimum
                 /\ p.lineDistance < particleLineDistanceMaximum
                 /\ Abs(p.speed) < particleSpeedMaximum
                 /\ p.bornTimer >= 0
                 /\ p.bornTimer < particleBornTimerMaximum
                 /\ p.position.cls = "num"
                 /\ p.position.v >= 0
                 /\ p.position.v < FULL_CIRCLE * PositionUnit
                 /\ p.color >= 0
                 /\ p.color < MAX_COLORS]_vars

\* C30: the colour index of ringed mode, i * MAX_COLORS / ringsMaximum, is
\* always defined: whenever a ring is drawn in ColorModeRinged, ringsMaximum
\* is above 0, whatever value >= 0 ringsMaximum was given.
C30_RingedIndexDefined ==
    pc = "draw" /\ ~blankMode /\ colorMode = 1 /\ rings # <<>> =>
        ringsMaximum > 0

\* C31: ringCount is the number of rings linked in the ring list, in every
\* state the ring-spawn expiries, the prune steps and the clear key reach,
\* for every ringsMaximum >= 0.
C31_RingCountIsLength ==
    ringCount = Len(rings)

\* the particle nodes linked into the rings of a list, counted ring by ring
RECURSIVE NodesLinked(_)
NodesLinked(rs) ==
    IF rs = <<>> THEN 0
    ELSE Len(Head(rs).particleNode) + NodesLinked(Tail(rs))

\* C32: no particle is leaked or counted twice.  In every state
\* particleCount is the number of particle nodes in all the rings of the
\* ring list plus recycledParticles, and no step lowers particleCount.
C32_ParticlesAccounted ==
    [][/\ particleCount' = NodesLinked(rings') + recycledParticles'
       /\ particleCount' >= particleCount]_vars

\* nodes of a retired ring are in the pool, some have been handed out
\* again, and several rings hold nodes
C32_Witness ==
    /\ pc = "populate"
    /\ popI >= 1
    /\ recycledParticles > 0
    /\ recycledParticles < particleCount
    /\ NodesLinked(rings) + recycledParticles = particleCount
    /\ Len(rings) >= 2

\* C33: every iteration of main's loop reaches its end for every
\* configuration parseArguments accepts (every integer >= 0,
\* timerAddNewRing = 0 included) and every elapsed time: the catch-up loops
\* of the two timers and the wrap loops of particleCalculateCoordinates
\* always exit.
C33_EveryIterationTerminates ==
    pc # "hung"

\* C34: once a timer has been handled in an iteration its counter is above
\* 0 and at most its interval (for an interval above 0): the counter of the
\* status line after every iteration, the counter of the ring timer after
\* every iteration that was not paused.  So a timer fires in an iteration
\* exactly when the elapsed time has reached what was left on its counter:
\* the status line is printed, and a ring is added, in the iterations whose
\* delta is at least the counter.
C34_CountersWithinInterval ==
    [][/\ (pc = "events" /\ pc' # "events" /\ pc' # "hung"
             /\ timerPrintStatusLine > 0) =>
             /\ printStatusLineCounter' > 0
             /\ printStatusLineCounter' <= timerPrintStatusLine
             /\ (statusLines' = statusLines + 1) =
                   (delta >= printStatusLineCounter)
             /\ statusLines' \in {statusLines, statusLines + 1}
       /\ (pc = "spawn" /\ timerAddNewRing > 0) =>
             (ringsAdded' = ringsAdded + 1) = (delta >= addNewRingCounter)
       /\ (pc' = "advance" /\ timerAddNewRing > 0) =>
             /\ addNewRingCounter' > 0
             /\ addNewRingCounter' <= timerAddNewRing
       /\ (pc' \in {"draw", "loop", "events", "spawn"} /\ ringsAdded' > 0
             /\ timerAddNewRing > 0) =>
             /\ addNewRingCounter' > 0
             /\ addNewRingCounter' <= timerAddNewRing]_vars

\* both timers have caught up on an iteration that was held up for longer
\* than their intervals, after an iteration that was paused
C34_Witness ==
    /\ pc = "advance"
    /\ delta = 3000
    /\ missedAddRing = 2
    /\ events >= 2
    /\ frames >= 3
    /\ ringsAdded >= 2
    /\ addNewRingCounter \in 1..timerAddNewRing
    /\ printStatusLineCounter \in 1..timerPrintStatusLine

\* ringCount has reached ringsMaximum: the expiry that added the
\* ringsMaximum-th ring has been handled
MaximumReached ==
    \/ ringsAdded > ringsMaximum
    \/ ringsAdded = ringsMaximum /\ pc \notin {"prune", "populate"}

\* C35: recycling reaches a steady state with no allocation.  With
\* ringsMaximum >= 1 and no clear key, once ringCount has reached
\* ringsMaximum every later ring-spawn expiry takes all the particles it
\* needs from the nodes its own prune freed: every node the population
\* links comes out of the free pool, particleCount stays as it is, and the
\* free pool is empty when the expiry has been handled.
C35_SteadyStateWithoutAllocation ==
    [][(ringsMaximum >= 1 /\ MaximumReached) =>
          /\ particleCount' = particleCount
          /\ (pc = "populate" /\ popI < Len(rings)) =>
                /\ freeParticleNodes # <<>>
                /\ Head(rings'[popI + 1].particleNode) =
                      Head(freeParticleNodes)
          /\ (pc = "populate" /\ pc' = "advance") =>
                /\ freeParticleNodes' = <<>>
                /\ recycledParticles' = 0
                /\ ringCount' = ringsMaximum
                /\ Len(rings') = ringsMaximum]_vars

\* the second expiry after three rings were reached has been handled with
\* the 24 particles the first three expiries allocated
C35_Witness ==
    /\ pc = "advance"
    /\ ringsMaximum = 3
    /\ ringsAdded = 5
    /\ RingIds = <<5, 4, 3>>
    /\ particleCount = 24
    /\ freeParticleNodes = <<>>

\* what the simulation consists of: the ring list, the particles, the free
\* pool, the counters and the timers, and the flags that steer the loop
Simulation ==
    <<rings, ringCount, particleCount, recycledParticles, freeParticleNodes,
      particle, rainbowIdx, addNewRingCounter, printStatusLineCounter,
      running, paused>>
RenderFlags == <<blankMode, fadingMode, linesEnabled, colorMode>>

\* C36: the render-only flags never influence the simulation.  Two runs fed
\* the same elapsed times and the same pause, clear and quit events, with
\* different histories of blankMode, fadingMode, linesEnabled and colorMode,
\* have the same rings, particles, free pool, counters and timers after
\* every iteration.  Step by step: a step that changes one of the flags
\* leaves the simulation and the loop's position alone, the drawing (the
\* only part of the loop that reads the flags) leaves the simulation alone,
\* and where main goes from the drawing is the same under every value of
\* the flags.
C36_RenderFlagsDoNotInterfere ==
    [][/\ RenderFlags' # RenderFlags =>
             (Simulation' = Simulation /\ pc' = pc /\ delta' = delta)
       /\ pc = "draw" =>
             /\ Simulation' = Simulation
             /\ pc' \in AfterDraw(blankMode, colorMode)
             /\ \A blank \in BOOLEAN, mode \in 0..3 :
                   AfterDraw(blank, mode) = AfterDraw(blankMode, colorMode)
      ]_vars

\* the heights of a ring's particles do not increase from the head of its
\* list to the tail
HeightsOrdered(ring) ==
    \A k \in 1..(Len(ring.particleNode) - 1) :
       particle[ring.particleNode[k]].height >=
          particle[ring.particleNode[k + 1]].height

\* C37: within every ring the heights of the particles are non-increasing
\* from the head of the list to the tail, at the end of every iteration and
\* in between.  A particle linked at the head has at least the height of
\* the head it was put in front of, and the update adds the same increment
\* to the height of every particle, so the order of insertion and the order
\* of the heights agree.
C37_HeightsFollowInsertion ==
    [][/\ \A r \in 1..Len(rings') :
             \A k \in 1..(Len(rings'[r].particleNode) - 1) :
                particle'[rings'[r].particleNode[k]].height >=
                   particle'[rings'[r].particleNode[k + 1]].height
       /\ (pc = "populate" /\ rings' # rings
             /\ rings[popI + 1].particleNode # <<>>) =>
             particle'[Head(rings'[popI + 1].particleNode)].height >=
                particle[Head(rings[popI + 1].particleNode)].height
       /\ (pc = "advance" /\ pc' = "draw") =>
             \A n \in RingNodes, m \in RingNodes :
                particle'[n].height - particle[n].height =
                   particle'[m].height - particle[m].height]_vars

\* an iteration has ended with a ring whose particles were linked in two
\* populations and differ in height, the older ones being the lower
C37_Witness ==
    /\ pc = "loop"
    /\ frames >= 2
    /\ particleExpandRate > 0
    /\ \E r \in 1..Len(rings) :
          /\ Len(rings[r].particleNode) >= 8
          /\ HeightsOrdered(rings[r])
          /\ particle[rings[r].particleNode[1]].height >
                particle[rings[r].particleNode[5]].height
          /\ particle[rings[r].particleNode[5]].height >
                particle[rings[r].particleNode[8]].height

\* C38: time spent paused is never charged to the ring timer.  A paused
\* iteration leaves the counter, the rings and the count of missed calls as
\* they are; the counter moves only in the ring-timer steps of an iteration
\* that is not paused, where it goes down by that iteration's own delta, so
\* the first iteration after a pause of any length adds at most one ring,
\* and the missed add-ring calls it reports are whole intervals of its own
\* delta.  A program started with --paused has no ring until it is unpaused.
C38_PauseNotCharged ==
    [][/\ (pc = "events" /\ pc' = "loop") =>
             /\ paused
             /\ addNewRingCounter' = addNewRingCounter
             /\ missedAddRing' = missedAddRing
             /\ rings' = rings
             /\ ringsAdded' = ringsAdded
       /\ addNewRingCounter' # addNewRingCounter =>
             (~paused /\ pc \in {"spawn", "populate"})
       /\ pc = "spawn" =>
             /\ addNewRingCounter' \in
                   {addNewRingCounter - delta,
                    addNewRingCounter - delta + timerAddNewRing}
             /\ ringsAdded' \in {ringsAdded, ringsAdded + 1}
             /\ Len(rings') <= Len(rings) + 1
       /\ (pc = "populate" /\ pc' = "advance") =>
             missedAddRing' * timerAddNewRing <= delta
       /\ (paused' /\ events' = 0) =>
             (rings' = <<>> /\ ringCount' = 0 /\ ringsAdded' = 0
              /\ addNewRingCounter' = 0)]_vars

\* a program started with --paused was held paused for two iterations of
\* 3000 ms each, six intervals of the ring timer; the iteration in which it
\* was unpaused took 400 ms, has added the first ring and missed no call
C38_Witness ==
    /\ pc = "advance"
    /\ frames = 3
    /\ events = 1
    /\ ~paused
    /\ delta = 400
    /\ timerAddNewRing = TIMER_ADD_NEW_RING
    /\ timerPrintStatusLine = TIMER_PRINT_STATUS_LINE
    /\ statusLines = 2
    /\ printStatusLineCounter = 1600
    /\ ringsAdded = 1
    /\ addNewRingCounter = 600
    /\ missedAddRing = 0

\* The particle as randomizeParticle left it when it was last given to p's
\* node: the call is known by the fields nothing writes afterwards.
AsRandomized(p) ==
    CHOOSE q \in {randomizeParticle([val |-> UnsetParticle, set |-> {}],
                                    Draws(s)).val :
                     s \in 0..(Len(RandSequence) - 1)} :
        /\ q.lineDistance = p.lineDistance
        /\ q.radius = p.radius
        /\ q.color = p.color
        /\ q.speed = p.speed

\* The milliseconds of the updates the ring at index r (from 1) of the
\* list rs has been through, ps being the particles: the node at its tail
\* was linked first, into the empty ring, and has grown by
\* particleExpandRate / 1000 a millisecond since.
ElapsedSinceAdded(rs, ps, r) ==
    LET p == ps[rs[r].particleNode[Len(rs[r].particleNode)]]
    IN  (p.height - AsRandomized(p).height) \div particleExpandRate

\* The same for the node at place k of that ring: it was linked in the
\* expiry that added the ring b places nearer the head, b being the number
\* of populations of 4 between the node and the tail.
ElapsedSinceLinked(rs, ps, r, k) ==
    ElapsedSinceAdded(rs, ps, r - ((Len(rs[r].particleNode) - k) \div 4))

\* C39: every particle placed in a ring becomes visible within a bounded
\* time.  Its bornTimer starts below particleBornTimerMaximum; once the
\* elapsed time of the iterations that were not paused, summed since the
\* particle was linked, has reached that start, the bornTimer is 0; and no
\* step raises the bornTimer of a particle that stays in a ring.
C39_BornWithinBoundedTime ==
    [][/\ (pc = "populate" /\ rings' # rings) =>
             LET p == particle'[Head(rings'[popI + 1].particleNode)]
             IN  /\ p.bornTimer >= 0
                 /\ p.bornTimer < particleBornTimerMaximum
                 /\ p.bornTimer = AsRandomized(p).bornTimer
       /\ pc' \in {"draw", "loop"} =>
             \A r \in 1..Len(rings') :
                \A k \in 1..Len(rings'[r].particleNode) :
                   LET p == particle'[rings'[r].particleNode[k]]
                   IN  ElapsedSinceLinked(rings', particle', r, k) >=
                          AsRandomized(p).bornTimer
                       => p.bornTimer = 0
       /\ \A n \in RingNodes :
             n \in RingNodes' =>
                particle'[n].bornTimer <= particle[n].bornTimer]_vars

\* a particle whose bornTimer started at 999 ms has reached 0 after updates
\* of 999 ms or more, while another of the same ring, linked later with
\* 700 ms, is still waiting; an iteration was spent paused in between (the
\* first ring has been through less time than the iterations took)
C39_Witness ==
    /\ pc = "loop"
    /\ ~paused
    /\ rings # <<>>
    /\ rings[Len(rings)].id = 1
    /\ ElapsedSinceAdded(rings, particle, Len(rings)) < 400 * frames
    /\ \E r \in 1..Len(rings) :
          \E k \in 1..Len(rings[r].particleNode) :
             \E l \in 1..Len(rings[r].particleNode) :
                LET p == particle[rings[r].particleNode[k]]
                    q == particle[rings[r].particleNode[l]]
                IN  /\ AsRandomized(p).bornTimer = 999
                    /\ p.bornTimer = 0
                    /\ ElapsedSinceLinked(rings, particle, r, k) >= 999
                    /\ ElapsedSinceLinked(rings, particle, r, k) < 2000
                    /\ AsRandomized(q).bornTimer = 700
                    /\ q.bornTimer > 0
                    /\ ElapsedSinceLinked(rings, particle, r, l) < 700

====
